---------------------------- MODULE Spec2Model ----------------------------
(***************************************************************************)
(* HAR-System: the Temporal Activity Tracker                               *)
(* (har_system/core/tracker.py, class TemporalActivityTracker) and the     *)
(* Face Identity Manager (har_system/core/face_identity_manager.py).       *)
(*                                                                         *)
(* Numbers.  The tracker computes in floating point; the model computes    *)
(* the same expressions in exact arithmetic:                               *)
(*   - pixel coordinates are integers;                                     *)
(*   - a timestamp is an integer number of ticks, TicksPerSecond ticks to  *)
(*     the second;                                                         *)
(*   - every quotient (speed, pose height, hip ratio, drop ratio, a        *)
(*     threshold) is a fraction <<n, d>> with d > 0, in lowest terms;      *)
(*   - None is the empty tuple <<>>, and an optional timestamp t is <<t>>. *)
(*   - total_distance_norm, a running sum of speeds, is kept as the list   *)
(*     of its terms in the order they were added.                          *)
(* Floating-point rounding is not modelled.  The observations fed to the   *)
(* tracker have even bbox heights and displacements of whole length, so    *)
(* that the halving in the bbox center and the square root are exact.      *)
(***************************************************************************)
EXTENDS Integers, Sequences, FiniteSets, TLC

VARIABLES
    history_frames,   \* self.history_frames
    fps_estimate,     \* self.fps_estimate
    thresholds,       \* self.thresholds
    global_stats,     \* self.global_stats
    tracks,           \* self.tracks: the keys the defaultdict holds -> Track State
    feed,             \* the observation source: per track, what it sent last
    ret,              \* the last call and what it returned
    user_data,        \* the application's settings the frame callback reads;
                      \* ChokePoint: the ChokePointCallbackHandler
    face_identity_manager,  \* the FaceIdentityManager, None without one
    clock,            \* time.time(), in ticks
    exported,         \* the dict a caller keeps from export_track_data
    appsrc,           \* ChokePoint: the buffers pushed and not yet processed
    analyzer          \* ChokePoint: the process_image call in progress

vars == <<history_frames, fps_estimate, thresholds, global_stats, tracks, feed,
          ret, user_data, face_identity_manager, clock, exported, appsrc,
          analyzer>>

None == <<>>

TicksPerSecond == 150

-----------------------------------------------------------------------------
(* Exact fractions.                                                        *)

Abs(x) == IF x < 0 THEN -x ELSE x

RECURSIVE Gcd(_, _)
Gcd(a, b) == IF b = 0 THEN a ELSE Gcd(b, a % b)

\* n / d for d > 0, in lowest terms
Frac(n, d) ==
    LET g == Gcd(Abs(n), d)
    IN  IF n = 0 THEN <<0, 1>> ELSE <<n \div g, d \div g>>

Zero == <<0, 1>>

FAdd(a, b) ==
    LET g == Gcd(a[2], b[2])
    IN  Frac(a[1] * (b[2] \div g) + b[1] * (a[2] \div g), (a[2] \div g) * b[2])

FSub(a, b) == FAdd(a, <<-b[1], b[2]>>)

\* a / b for b > 0
FDiv(a, b) ==
    LET g1 == Gcd(Abs(a[1]), b[1])
        g2 == Gcd(a[2], b[2])
    IN  IF a[1] = 0 THEN Zero
        ELSE Frac((a[1] \div g1) * (b[2] \div g2), (a[2] \div g2) * (b[1] \div g1))

\* a * (n / d), n >= 0, d > 0
FScale(a, n, d) ==
    LET g1 == Gcd(Abs(a[1]), d)
        g2 == Gcd(n, a[2])
    IN  IF a[1] = 0 \/ n = 0 THEN Zero
        ELSE Frac((a[1] \div g1) * (n \div g2), (a[2] \div g2) * (d \div g1))

FLess(a, b) == a[1] * b[2] < b[1] * a[2]

FPositive(a) == a[1] > 0

RECURSIVE FSum(_)
FSum(s) == IF s = <<>> THEN Zero ELSE FAdd(s[1], FSum(Tail(s)))

\* np.mean of a non-empty list of fractions
FMean(s) == FScale(FSum(s), 1, Len(s))

\* np.sqrt on the squared distances the observations produce: the integer
\* root, exact when n is a perfect square
ISqrt(n) == CHOOSE r \in 0..n : r * r <= n /\ n < (r + 1) * (r + 1)

RECURSIVE SumInts(_)
SumInts(s) == IF s = <<>> THEN 0 ELSE s[1] + SumInts(Tail(s))

-----------------------------------------------------------------------------
(* Sequences as Python lists and deques.                                   *)

Min(a, b) == IF a < b THEN a ELSE b

\* s[-n:] for n >= 1
LastN(s, n) == IF Len(s) <= n THEN s ELSE SubSeq(s, Len(s) - n + 1, Len(s))

\* s[:n]
FirstN(s, n) == IF Len(s) <= n THEN s ELSE SubSeq(s, 1, n)

\* a deque that refuses the new entry once it is full
DequeAppendKeepsOldest(s, x, maxlen) ==
    IF Len(s) < maxlen THEN Append(s, x) ELSE s

\* deque(maxlen = maxlen).append(x)
DequeAppend(s, x, maxlen) ==
    IF maxlen = 0 THEN <<>>
    ELSE IF Len(s) < maxlen THEN Append(s, x)
    ELSE Append(Tail(s), x)

\* dict.get(key): None when the key is absent
Get(d, key) == IF key \in DOMAIN d THEN d[key] ELSE None

\* Python truth of an optional tuple: None is false, any keypoint tuple true
Present(x) == x # None

-----------------------------------------------------------------------------
(* Construction.                                                           *)

\* int(history_seconds * fps_estimate), history_seconds given in tenths of a
\* second
HistoryFrames(history_tenths, fps) == (history_tenths * fps) \div 10

DefaultThresholds ==
    [speed_stationary    |-> <<1, 10>>,
     speed_slow          |-> <<1, 2>>,
     speed_fast          |-> <<3, 2>>,
     hip_ratio_sitting   |-> <<31, 50>>,
     fall_drop_ratio     |-> <<3, 10>>,
     fall_time_threshold |-> <<1, 2>>]

InitialGlobalStats ==
    [total_tracks_seen      |-> 0,
     active_tracks          |-> 0,
     total_falls_detected   |-> 0,
     total_activity_changes |-> 0]

CreateNewTrack ==
    [timestamps        |-> <<>>,
     positions         |-> <<>>,
     bboxes            |-> <<>>,
     keypoints         |-> <<>>,
     confidences       |-> <<>>,
     first_seen        |-> None,
     last_seen         |-> None,
     is_active         |-> TRUE,
     total_frames      |-> 0,
     current_activity  |-> "unknown",
     previous_activity |-> "unknown",
     stats |-> [total_distance_norm |-> <<>>,
                frames_stationary   |-> 0,
                frames_moving       |-> 0,
                frames_sitting      |-> 0,
                fall_detected       |-> FALSE,
                fall_timestamp      |-> None,
                activity_changes    |-> <<>>]]

\* self.tracks[track_id] read: the Track State the defaultdict hands out
TrackOf(track_id) ==
    IF track_id \in DOMAIN tracks THEN tracks[track_id] ELSE CreateNewTrack

\* self.tracks after the access self.tracks[track_id], holding `track` there
TracksWith(track_id, track) ==
    [i \in DOMAIN tracks \cup {track_id} |->
        IF i = track_id THEN track ELSE tracks[i]]

-----------------------------------------------------------------------------
(* Helper functions: normalized measurements.                              *)

GetBboxCenter(bbox) ==
    <<(bbox.xmin + bbox.xmax) \div 2, (bbox.ymin + bbox.ymax) \div 2>>

GetBboxHeight(bbox) == bbox.ymax - bbox.ymin

GetBboxWidth(bbox) == bbox.xmax - bbox.xmin

\* the loop of lines 234-239: the summed distance between consecutive centers
RECURSIVE TotalDistance(_)
TotalDistance(ps) ==
    IF Len(ps) < 2 THEN 0
    ELSE LET dx == ps[2][1] - ps[1][1]
             dy == ps[2][2] - ps[1][2]
         IN  ISqrt(dx * dx + dy * dy) + TotalDistance(Tail(ps))

RECURSIVE Heights(_)
Heights(bs) ==
    IF bs = <<>> THEN <<>> ELSE <<GetBboxHeight(bs[1])>> \o Heights(Tail(bs))

\* a speed that takes a window in which time did not advance as one tick
\* long and a window of no height as one pixel high
CalculateNormalizedSpeedUnguarded(track, window) ==
    IF Len(track.positions) < 2 THEN Zero
    ELSE
    LET w == Min(window, Len(track.positions))
        recent_positions  == LastN(track.positions, w)
        recent_timestamps == LastN(track.timestamps, w)
        recent_bboxes     == LastN(track.bboxes, w)
        total_distance    == TotalDistance(recent_positions)
        elapsed == recent_timestamps[Len(recent_timestamps)] - recent_timestamps[1]
        dt == IF elapsed <= 0 THEN 1 ELSE elapsed
        height == SumInts(Heights(recent_bboxes))
        height_sum == IF height <= 0 THEN 1 ELSE height
    IN  FDiv(Frac(total_distance * TicksPerSecond, dt),
             Frac(height_sum, Len(recent_bboxes)))

\* a speed in pixels per second, not divided by the person's height
CalculateNormalizedSpeedInPixels(track, window) ==
    IF Len(track.positions) < 2 THEN Zero
    ELSE
    LET w == Min(window, Len(track.positions))
        recent_positions  == LastN(track.positions, w)
        recent_timestamps == LastN(track.timestamps, w)
        recent_bboxes     == LastN(track.bboxes, w)
        total_distance    == TotalDistance(recent_positions)
        dt == recent_timestamps[Len(recent_timestamps)] - recent_timestamps[1]
        height_sum == SumInts(Heights(recent_bboxes))
    IN  IF dt <= 0 THEN Zero
        ELSE IF height_sum <= 0 THEN Zero
        ELSE Frac(total_distance * TicksPerSecond, dt)

CalculateNormalizedSpeed(track, window) ==
    IF Len(track.positions) < 2 THEN Zero
    ELSE
    LET w == Min(window, Len(track.positions))
        recent_positions  == LastN(track.positions, w)
        recent_timestamps == LastN(track.timestamps, w)
        recent_bboxes     == LastN(track.bboxes, w)
        total_distance    == TotalDistance(recent_positions)
        dt == recent_timestamps[Len(recent_timestamps)] - recent_timestamps[1]
        height_sum == SumInts(Heights(recent_bboxes))
    IN  IF dt <= 0 THEN Zero
        ELSE IF height_sum <= 0 THEN Zero
        ELSE LET speed_px_per_sec == Frac(total_distance * TicksPerSecond, dt)
                 avg_height == Frac(height_sum, Len(recent_bboxes))
             IN  FDiv(speed_px_per_sec, avg_height)

CalculatePoseHeightNormalized(keypoints, bbox) ==
    LET nose        == Get(keypoints, "nose")
        left_ankle  == Get(keypoints, "left_ankle")
        right_ankle == Get(keypoints, "right_ankle")
    IN  IF ~Present(nose) \/ ~Present(left_ankle) \/ ~Present(right_ankle)
        THEN None
        ELSE LET ankle_y2 == left_ankle[2] + right_ankle[2]
                 pose_height_px == Frac(Abs(ankle_y2 - 2 * nose[2]), 2)
                 bbox_height == GetBboxHeight(bbox)
             IN  IF bbox_height <= 0 THEN None
                 ELSE FDiv(pose_height_px, <<bbox_height, 1>>)

CalculateHipRatio(keypoints, bbox) ==
    LET left_hip    == Get(keypoints, "left_hip")
        right_hip   == Get(keypoints, "right_hip")
        left_ankle  == Get(keypoints, "left_ankle")
        right_ankle == Get(keypoints, "right_ankle")
    IN  IF ~(Present(left_hip) /\ Present(right_hip)
             /\ Present(left_ankle) /\ Present(right_ankle))
        THEN None
        ELSE LET hip_y2   == left_hip[2] + right_hip[2]
                 ankle_y2 == left_ankle[2] + right_ankle[2]
                 bbox_height == GetBboxHeight(bbox)
             IN  IF bbox_height <= 0 THEN None
                 ELSE FDiv(Frac(ankle_y2 - hip_y2, 2), <<bbox_height, 1>>)

-----------------------------------------------------------------------------
(* Classification and detection.                                           *)

\* the loop of lines 348-352: the hip ratios that are not None, in order
RECURSIVE HipRatios(_, _)
HipRatios(kps, bbs) ==
    IF kps = <<>> \/ bbs = <<>> THEN <<>>
    ELSE LET ratio == CalculateHipRatio(kps[1], bbs[1])
         IN  (IF ratio # None THEN <<ratio>> ELSE <<>>)
                 \o HipRatios(Tail(kps), Tail(bbs))

\* the loop of lines 389-393: the pose heights that are not None, in order
RECURSIVE PoseHeights(_, _)
PoseHeights(kps, bbs) ==
    IF kps = <<>> \/ bbs = <<>> THEN <<>>
    ELSE LET h == CalculatePoseHeightNormalized(kps[1], bbs[1])
         IN  (IF h # None THEN <<h>> ELSE <<>>)
                 \o PoseHeights(Tail(kps), Tail(bbs))

AvgHipRatio(track) ==
    LET hip_ratios == HipRatios(LastN(track.keypoints, 5), LastN(track.bboxes, 5))
    IN  IF hip_ratios # <<>> THEN FMean(hip_ratios) ELSE <<1, 2>>

\* ClassifyActivitySimple with the stationary rule tried before the sitting
\* rule
ClassifyActivitySimpleStationaryFirst(track, window) ==
    LET speed == CalculateNormalizedSpeed(track, window)
        avg_hip_ratio == AvgHipRatio(track)
    IN  IF Len(track.keypoints) = 0 THEN "unknown"
        ELSE IF FLess(speed, thresholds.speed_stationary) THEN "stationary"
        ELSE IF FLess(thresholds.hip_ratio_sitting, avg_hip_ratio)
                /\ FLess(speed, FScale(thresholds.speed_stationary, 3, 2))
             THEN "sitting"
        ELSE "moving"

\* ClassifyActivitySimple giving up when none of the last 5 samples has the
\* hip and ankle joints
ClassifyActivitySimpleNeedsHips(track, window) ==
    LET speed == CalculateNormalizedSpeed(track, window)
        avg_hip_ratio == AvgHipRatio(track)
    IN  IF HipRatios(LastN(track.keypoints, 5), LastN(track.bboxes, 5)) = <<>>
        THEN "unknown"
        ELSE IF FLess(thresholds.hip_ratio_sitting, avg_hip_ratio)
                /\ FLess(speed, FScale(thresholds.speed_stationary, 3, 2))
             THEN "sitting"
        ELSE IF FLess(speed, thresholds.speed_stationary) THEN "stationary"
        ELSE "moving"

ClassifyActivitySimple(track, window) ==
    LET speed == CalculateNormalizedSpeed(track, window)
        avg_hip_ratio == AvgHipRatio(track)
    IN  IF Len(track.keypoints) = 0 THEN "unknown"
        ELSE IF FLess(thresholds.hip_ratio_sitting, avg_hip_ratio)
                /\ FLess(speed, FScale(thresholds.speed_stationary, 3, 2))
             THEN "sitting"
        ELSE IF FLess(speed, thresholds.speed_stationary) THEN "stationary"
        ELSE "moving"

\* DetectFallSimple without the time condition
DetectFallSimpleAnyDuration(track, window) ==
    IF Len(track.keypoints) < window THEN FALSE
    ELSE
    LET recent_keypoints  == LastN(track.keypoints, window)
        recent_bboxes     == LastN(track.bboxes, window)
        recent_timestamps == LastN(track.timestamps, window)
        heights == PoseHeights(recent_keypoints, recent_bboxes)
    IN  IF Len(heights) < 5 THEN FALSE
        ELSE LET start_height == FMean(FirstN(heights, 3))
                 end_height   == FMean(LastN(heights, 3))
                 drop_ratio ==
                     IF FPositive(start_height)
                     THEN FDiv(FSub(start_height, end_height), start_height)
                     ELSE Zero
                 dt == Frac(recent_timestamps[Len(recent_timestamps)]
                                - recent_timestamps[1], TicksPerSecond)
             IN  FLess(thresholds.fall_drop_ratio, drop_ratio)

\* DetectFallSimple with the drop taken as end - start
DetectFallSimpleRise(track, window) ==
    IF Len(track.keypoints) < window THEN FALSE
    ELSE
    LET recent_keypoints  == LastN(track.keypoints, window)
        recent_bboxes     == LastN(track.bboxes, window)
        recent_timestamps == LastN(track.timestamps, window)
        heights == PoseHeights(recent_keypoints, recent_bboxes)
    IN  IF Len(heights) < 5 THEN FALSE
        ELSE LET start_height == FMean(FirstN(heights, 3))
                 end_height   == FMean(LastN(heights, 3))
                 drop_ratio ==
                     IF FPositive(start_height)
                     THEN FDiv(FSub(end_height, start_height), start_height)
                     ELSE Zero
                 dt == Frac(recent_timestamps[Len(recent_timestamps)]
                                - recent_timestamps[1], TicksPerSecond)
             IN  FLess(thresholds.fall_drop_ratio, drop_ratio)
                 /\ FLess(dt, thresholds.fall_time_threshold)

\* DetectFallSimple measuring the time between the last two entries
DetectFallSimpleLastInterval(track, window) ==
    IF Len(track.keypoints) < window THEN FALSE
    ELSE
    LET recent_keypoints  == LastN(track.keypoints, window)
        recent_bboxes     == LastN(track.bboxes, window)
        recent_timestamps == LastN(track.timestamps, window)
        heights == PoseHeights(recent_keypoints, recent_bboxes)
    IN  IF Len(heights) < 5 THEN FALSE
        ELSE LET start_height == FMean(FirstN(heights, 3))
                 end_height   == FMean(LastN(heights, 3))
                 drop_ratio ==
                     IF FPositive(start_height)
                     THEN FDiv(FSub(start_height, end_height), start_height)
                     ELSE Zero
                 dt == Frac(recent_timestamps[Len(recent_timestamps)]
                                - recent_timestamps[Len(recent_timestamps) - 1],
                            TicksPerSecond)
             IN  FLess(thresholds.fall_drop_ratio, drop_ratio)
                 /\ FLess(dt, thresholds.fall_time_threshold)

DetectFallSimple(track, window) ==
    IF Len(track.keypoints) < window THEN FALSE
    ELSE
    LET recent_keypoints  == LastN(track.keypoints, window)
        recent_bboxes     == LastN(track.bboxes, window)
        recent_timestamps == LastN(track.timestamps, window)
        heights == PoseHeights(recent_keypoints, recent_bboxes)
    IN  IF Len(heights) < 5 THEN FALSE
        ELSE LET start_height == FMean(FirstN(heights, 3))
                 end_height   == FMean(LastN(heights, 3))
                 drop_ratio ==
                     IF FPositive(start_height)
                     THEN FDiv(FSub(start_height, end_height), start_height)
                     ELSE Zero
                 dt == Frac(recent_timestamps[Len(recent_timestamps)]
                                - recent_timestamps[1], TicksPerSecond)
             IN  FLess(thresholds.fall_drop_ratio, drop_ratio)
                 /\ FLess(dt, thresholds.fall_time_threshold)

-----------------------------------------------------------------------------
(* update(track_id, frame_data), step by step.  A step takes and returns   *)
(* s = [track |-> the Track State, global |-> self.global_stats].          *)

\* RecordNewAppearance testing `not track['first_seen']`: a first_seen of
\* 0.0 counts as not seen yet
RecordNewAppearanceWhenFalsy(s, timestamp) ==
    IF s.track.first_seen = None \/ s.track.first_seen = <<0>>
    THEN [track  |-> [s.track EXCEPT !.first_seen = <<timestamp>>],
          global |-> [s.global EXCEPT !.total_tracks_seen = @ + 1,
                                      !.active_tracks = @ + 1]]
    ELSE s

\* 1. Record new appearance (lines 122-126)
RecordNewAppearance(s, timestamp) ==
    IF s.track.first_seen = None
    THEN [track  |-> [s.track EXCEPT !.first_seen = <<timestamp>>],
          global |-> [s.global EXCEPT !.total_tracks_seen = @ + 1,
                                      !.active_tracks = @ + 1]]
    ELSE s

\* StoreRawData with total_frames taken from the length of the history
StoreRawDataCountsHistory(s, frame_data) ==
    [s EXCEPT !.track =
        [@ EXCEPT
            !.last_seen    = <<frame_data.timestamp>>,
            !.total_frames =
                Len(DequeAppend(s.track.timestamps, frame_data.timestamp,
                                history_frames)),
            !.timestamps   = DequeAppend(@, frame_data.timestamp, history_frames),
            !.bboxes       = DequeAppend(@, frame_data.bbox, history_frames),
            !.keypoints    = DequeAppend(@, frame_data.keypoints, history_frames),
            !.confidences  = DequeAppend(@, frame_data.confidence, history_frames),
            !.positions    = DequeAppend(@, GetBboxCenter(frame_data.bbox),
                                         history_frames)]]

\* 2. Store raw data (lines 131-140)
StoreRawData(s, frame_data) ==
    [s EXCEPT !.track =
        [@ EXCEPT
            !.last_seen    = <<frame_data.timestamp>>,
            !.total_frames = @ + 1,
            !.timestamps   = DequeAppend(@, frame_data.timestamp, history_frames),
            !.bboxes       = DequeAppend(@, frame_data.bbox, history_frames),
            !.keypoints    = DequeAppend(@, frame_data.keypoints, history_frames),
            !.confidences  = DequeAppend(@, frame_data.confidence, history_frames),
            !.positions    = DequeAppend(@, GetBboxCenter(frame_data.bbox),
                                         history_frames)]]

\* CalculateDerivatives comparing the speed with speed_slow
CalculateDerivativesSlow(s) ==
    IF Len(s.track.positions) >= 2
    THEN LET speed_norm == CalculateNormalizedSpeed(s.track, 10)
         IN  IF FLess(speed_norm, thresholds.speed_slow)
             THEN [s EXCEPT !.track.stats.frames_stationary = @ + 1]
             ELSE [s EXCEPT !.track.stats.frames_moving = @ + 1,
                            !.track.stats.total_distance_norm =
                                Append(@, speed_norm)]
    ELSE s

\* CalculateDerivatives comparing the speed with the speed_stationary the
\* tracker was constructed with
CalculateDerivativesCached(s) ==
    IF Len(s.track.positions) >= 2
    THEN LET speed_norm == CalculateNormalizedSpeed(s.track, 10)
         IN  IF FLess(speed_norm, DefaultThresholds.speed_stationary)
             THEN [s EXCEPT !.track.stats.frames_stationary = @ + 1]
             ELSE [s EXCEPT !.track.stats.frames_moving = @ + 1,
                            !.track.stats.total_distance_norm =
                                Append(@, speed_norm)]
    ELSE s

\* CalculateDerivatives counting the first observation as well
CalculateDerivativesFromFirst(s) ==
    IF Len(s.track.positions) >= 1
    THEN LET speed_norm == CalculateNormalizedSpeed(s.track, 10)
         IN  IF FLess(speed_norm, thresholds.speed_stationary)
             THEN [s EXCEPT !.track.stats.frames_stationary = @ + 1]
             ELSE [s EXCEPT !.track.stats.frames_moving = @ + 1,
                            !.track.stats.total_distance_norm =
                                Append(@, speed_norm)]
    ELSE s

\* 3. Calculate derivatives (lines 145-154)
CalculateDerivatives(s) ==
    IF Len(s.track.positions) >= 2
    THEN LET speed_norm == CalculateNormalizedSpeed(s.track, 10)
         IN  IF FLess(speed_norm, thresholds.speed_stationary)
             THEN [s EXCEPT !.track.stats.frames_stationary = @ + 1]
             ELSE [s EXCEPT !.track.stats.frames_moving = @ + 1,
                            !.track.stats.total_distance_norm =
                                Append(@, speed_norm)]
    ELSE s

\* ClassifyActivity run from 9 history entries on
ClassifyActivityFrom9(s, timestamp) ==
    IF Len(s.track.positions) >= 9
    THEN LET previous == s.track.current_activity
             current  == ClassifyActivitySimple(s.track, 30)
             s1 == [s EXCEPT !.track.previous_activity = previous,
                             !.track.current_activity  = current]
             s2 == IF previous # "unknown" /\ current # previous
                   THEN [s1 EXCEPT
                            !.track.stats.activity_changes =
                                Append(@, [timestamp |-> timestamp,
                                           from |-> previous,
                                           to   |-> current]),
                            !.global.total_activity_changes = @ + 1]
                   ELSE s1
         IN  IF current = "sitting"
             THEN [s2 EXCEPT !.track.stats.frames_sitting = @ + 1]
             ELSE s2
    ELSE s

\* ClassifyActivity recording the first label of a track as a change too
ClassifyActivityLogsFirst(s, timestamp) ==
    IF Len(s.track.positions) >= 10
    THEN LET previous == s.track.current_activity
             current  == ClassifyActivitySimple(s.track, 30)
             s1 == [s EXCEPT !.track.previous_activity = previous,
                             !.track.current_activity  = current]
             s2 == IF current # previous
                   THEN [s1 EXCEPT
                            !.track.stats.activity_changes =
                                Append(@, [timestamp |-> timestamp,
                                           from |-> previous,
                                           to   |-> current]),
                            !.global.total_activity_changes = @ + 1]
                   ELSE s1
         IN  IF current = "sitting"
             THEN [s2 EXCEPT !.track.stats.frames_sitting = @ + 1]
             ELSE s2
    ELSE s

\* ClassifyActivity writing previous_activity only when the label changes
ClassifyActivityKeepsPrevious(s, timestamp) ==
    IF Len(s.track.positions) >= 10
    THEN LET previous == s.track.current_activity
             current  == ClassifyActivitySimple(s.track, 30)
             s1 == [s EXCEPT !.track.previous_activity = IF current # previous THEN previous ELSE @,
                             !.track.current_activity  = current]
             s2 == IF previous # "unknown" /\ current # previous
                   THEN [s1 EXCEPT
                            !.track.stats.activity_changes =
                                Append(@, [timestamp |-> timestamp,
                                           from |-> previous,
                                           to   |-> current]),
                            !.global.total_activity_changes = @ + 1]
                   ELSE s1
         IN  IF current = "sitting"
             THEN [s2 EXCEPT !.track.stats.frames_sitting = @ + 1]
             ELSE s2
    ELSE s

\* 4. Classify activity (lines 159-176)
\* ClassifyActivity with the previous activity kept once for the store (the
\* label the last update returned) instead of once per track
ClassifyActivityStorePrevious(s, timestamp) ==
    IF Len(s.track.positions) >= 10
    THEN LET previous == IF ret.op = "update" THEN ret.value
                         ELSE s.track.current_activity
             current  == ClassifyActivitySimple(s.track, 30)
             s1 == [s EXCEPT !.track.previous_activity = previous,
                             !.track.current_activity  = current]
             s2 == IF previous # "unknown" /\ current # previous
                   THEN [s1 EXCEPT
                            !.track.stats.activity_changes =
                                Append(@, [timestamp |-> timestamp,
                                           from |-> previous,
                                           to   |-> current]),
                            !.global.total_activity_changes = @ + 1]
                   ELSE s1
         IN  IF current = "sitting"
             THEN [s2 EXCEPT !.track.stats.frames_sitting = @ + 1]
             ELSE s2
    ELSE s

ClassifyActivity(s, timestamp) ==
    IF Len(s.track.positions) >= 10
    THEN LET previous == s.track.current_activity
             current  == ClassifyActivitySimple(s.track, 30)
             s1 == [s EXCEPT !.track.previous_activity = previous,
                             !.track.current_activity  = current]
             s2 == IF previous # "unknown" /\ current # previous
                   THEN [s1 EXCEPT
                            !.track.stats.activity_changes =
                                Append(@, [timestamp |-> timestamp,
                                           from |-> previous,
                                           to   |-> current]),
                            !.global.total_activity_changes = @ + 1]
                   ELSE s1
         IN  IF current = "sitting"
             THEN [s2 EXCEPT !.track.stats.frames_sitting = @ + 1]
             ELSE s2
    ELSE s

\* FallDetection recording every detection, also on a track already flagged
FallDetectionEveryTime(s, timestamp) ==
    IF Len(s.track.keypoints) >= 15
       /\ DetectFallSimple(s.track, 15)
    THEN [s EXCEPT !.track.stats.fall_detected  = TRUE,
                   !.track.stats.fall_timestamp = <<timestamp>>,
                   !.global.total_falls_detected = @ + 1]
    ELSE s

\* FallDetection counting every detection, also on a track already flagged
FallDetectionCountsEveryTime(s, timestamp) ==
    IF Len(s.track.keypoints) >= 15
       /\ DetectFallSimple(s.track, 15)
    THEN IF s.track.stats.fall_detected
         THEN [s EXCEPT !.global.total_falls_detected = @ + 1]
         ELSE [s EXCEPT !.track.stats.fall_detected  = TRUE,
                        !.track.stats.fall_timestamp = <<timestamp>>,
                        !.global.total_falls_detected = @ + 1]
    ELSE s

\* FallDetection examining the last 10 entries, from 10 entries on
FallDetectionFrom10(s, timestamp) ==
    IF Len(s.track.keypoints) >= 10
       /\ DetectFallSimple(s.track, 10)
       /\ ~s.track.stats.fall_detected
    THEN [s EXCEPT !.track.stats.fall_detected  = TRUE,
                   !.track.stats.fall_timestamp = <<timestamp>>,
                   !.global.total_falls_detected = @ + 1]
    ELSE s

\* 5. Fall detection (lines 181-187)
FallDetection(s, timestamp) ==
    IF Len(s.track.keypoints) >= 15
       /\ DetectFallSimple(s.track, 15)
       /\ ~s.track.stats.fall_detected
    THEN [s EXCEPT !.track.stats.fall_detected  = TRUE,
                   !.track.stats.fall_timestamp = <<timestamp>>,
                   !.global.total_falls_detected = @ + 1]
    ELSE s

\* the five steps of update applied to s0
UpdatedFrom(s0, frame_data) ==
    LET s1 == RecordNewAppearance(s0, frame_data.timestamp)
        s2 == StoreRawData(s1, frame_data)
        s3 == CalculateDerivatives(s2)
        s4 == ClassifyActivity(s3, frame_data.timestamp)
    IN  FallDetection(s4, frame_data.timestamp)

\* the store after update(track_id, frame_data)
Updated(track_id, frame_data) ==
    UpdatedFrom([track |-> TrackOf(track_id), global |-> global_stats],
                frame_data)

\* update with one Track State object shared by every key of self.tracks
UpdateSharedTrack(track_id, frame_data) ==
    \E s \in {Updated(track_id, frame_data)} :
        /\ tracks' = [i \in DOMAIN tracks \cup {track_id} |-> s.track]
        /\ global_stats' = s.global
        /\ ret' = [op |-> "update", track_id |-> track_id,
                   value |-> s.track.current_activity]
        /\ UNCHANGED <<history_frames, fps_estimate, thresholds, user_data,
                       face_identity_manager, clock, exported,
                   appsrc, analyzer>>

Update(track_id, frame_data) ==
    \E s \in {Updated(track_id, frame_data)} :
        /\ tracks' = TracksWith(track_id, s.track)
        /\ global_stats' = s.global
        /\ ret' = [op |-> "update", track_id |-> track_id,
                   value |-> s.track.current_activity]
        /\ UNCHANGED <<history_frames, fps_estimate, thresholds, user_data,
                       face_identity_manager, clock, exported,
                   appsrc, analyzer>>

-----------------------------------------------------------------------------
(* Query functions.                                                        *)

\* an activity_history that keeps the 5 oldest changes
ActivityHistoryOldest(changes) == FirstN(changes, 5)

\* track['stats']['activity_changes'][-5:] (line 457)
ActivityHistory(changes) == LastN(changes, 5)

\* get_summary: the dict returned for a track that has been seen
\* (lines 435-458); a percentage is a fraction
Summary(track_id, track) ==
    LET total_frames == track.total_frames
        Percent(frames) == IF total_frames > 0
                           THEN Frac(frames * 100, total_frames) ELSE Zero
        changes == track.stats.activity_changes
    IN  [track_id         |-> track_id,
         duration_seconds |-> track.last_seen[1] - track.first_seen[1],
         total_frames     |-> total_frames,
         current_activity |-> track.current_activity,
         stats |-> [total_distance_normalized |-> track.stats.total_distance_norm,
                    percent_moving     |-> Percent(track.stats.frames_moving),
                    percent_stationary |-> Percent(track.stats.frames_stationary),
                    percent_sitting    |-> Percent(track.stats.frames_sitting),
                    fall_detected      |-> track.stats.fall_detected,
                    fall_timestamp     |-> track.stats.fall_timestamp,
                    total_activity_changes |-> Len(changes)],
         activity_history |-> ActivityHistory(changes)]

\* get_summary answering None only for an id the store does not hold, and
\* failing on the subtraction None - None for one it holds unobserved
GetSummaryResultIfHeld(track_id) ==
    IF track_id \notin DOMAIN tracks THEN None
    ELSE IF tracks[track_id].first_seen = None THEN <<"TypeError">>
    ELSE <<Summary(track_id, tracks[track_id])>>

\* what get_summary(track_id) returns: None, or <<the summary>>
GetSummaryResult(track_id) ==
    IF TrackOf(track_id).first_seen = None THEN None
    ELSE <<Summary(track_id, TrackOf(track_id))>>

\* what detect_activity_change(track_id) returns: None, or <<the change>>
DetectActivityChangeResult(track_id) ==
    LET track == TrackOf(track_id)
    IN  IF track.current_activity # track.previous_activity
           /\ track.previous_activity # "unknown"
        THEN <<[track_id  |-> track_id,
                from      |-> track.previous_activity,
                to        |-> track.current_activity,
                timestamp |-> track.last_seen]>>
        ELSE None

\* a query that counts the Track State the defaultdict creates for it as a
\* track seen
QueryCountsCreation(op, track_id, value) ==
    /\ tracks' = TracksWith(track_id, TrackOf(track_id))
    /\ global_stats' =
          IF track_id \in DOMAIN tracks THEN global_stats
          ELSE [global_stats EXCEPT !.total_tracks_seen = @ + 1]
    /\ ret' = [op |-> op, track_id |-> track_id, value |-> value]
    /\ UNCHANGED <<history_frames, fps_estimate, thresholds, feed, user_data,
                   face_identity_manager, clock, exported,
                   appsrc, analyzer>>

\* a query of self.tracks[track_id] that returns `value`: the defaultdict
\* keeps the Track State it hands out
Query(op, track_id, value) ==
    /\ tracks' = TracksWith(track_id, TrackOf(track_id))
    /\ ret' = [op |-> op, track_id |-> track_id, value |-> value]
    /\ UNCHANGED <<history_frames, fps_estimate, thresholds, global_stats, feed,
                   user_data, face_identity_manager, clock, exported,
                   appsrc, analyzer>>

GetSummary(track_id) ==
    Query("get_summary", track_id, GetSummaryResult(track_id))

\* detect_activity_change consuming the change it reports
DetectActivityChangeOnce(track_id) ==
    /\ tracks' = TracksWith(track_id,
                    [TrackOf(track_id) EXCEPT
                        !.previous_activity = TrackOf(track_id).current_activity])
    /\ ret' = [op |-> "detect_activity_change", track_id |-> track_id,
               value |-> DetectActivityChangeResult(track_id)]
    /\ UNCHANGED <<history_frames, fps_estimate, thresholds, global_stats, feed,
                   user_data, face_identity_manager, clock, exported,
                   appsrc, analyzer>>

DetectActivityChange(track_id) ==
    Query("detect_activity_change", track_id,
          DetectActivityChangeResult(track_id))

\* get_activity(track_id) (lines 419-421)
GetActivity(track_id) ==
    Query("get_activity", track_id, TrackOf(track_id).current_activity)

\* the empty dict {}
EmptyDict == [key \in {} |-> None]

\* list(d)[-1] if d else None
LastOrNone(d) == IF d # <<>> THEN <<d[Len(d)]>> ELSE None

\* an export whose total_frames is the number of history entries
ExportTrackDataResultHistoryLength(track_id) ==
    LET track == TrackOf(track_id)
    IN  IF track.first_seen = None THEN EmptyDict
        ELSE [track_id |-> track_id,
              metadata |->
                  [first_seen       |-> track.first_seen,
                   last_seen        |-> track.last_seen,
                   total_frames     |-> Len(track.timestamps),
                   duration_seconds |-> track.last_seen[1] - track.first_seen[1]],
              current_state |->
                  [activity      |-> track.current_activity,
                   last_position |-> LastOrNone(track.positions),
                   last_bbox     |-> LastOrNone(track.bboxes)],
              statistics |-> track.stats,
              raw_data |-> [timestamps |-> track.timestamps,
                            positions  |-> track.positions]]

\* what export_track_data(track_id) returns (lines 501-532)
ExportTrackDataResult(track_id) ==
    LET track == TrackOf(track_id)
    IN  IF track.first_seen = None THEN EmptyDict
        ELSE [track_id |-> track_id,
              metadata |->
                  [first_seen       |-> track.first_seen,
                   last_seen        |-> track.last_seen,
                   total_frames     |-> track.total_frames,
                   duration_seconds |-> track.last_seen[1] - track.first_seen[1]],
              current_state |->
                  [activity      |-> track.current_activity,
                   last_position |-> LastOrNone(track.positions),
                   last_bbox     |-> LastOrNone(track.bboxes)],
              statistics |-> track.stats,
              raw_data |-> [timestamps |-> track.timestamps,
                            positions  |-> track.positions]]

ExportTrackData(track_id) ==
    Query("export_track_data", track_id, ExportTrackDataResult(track_id))

\* data = tracker.export_track_data(track_id), the caller keeping data
KeepExport(track_id) ==
    /\ tracks' = TracksWith(track_id, TrackOf(track_id))
    /\ ret' = [op |-> "export_track_data", track_id |-> track_id,
               value |-> ExportTrackDataResult(track_id)]
    /\ exported' = <<ExportTrackDataResult(track_id)>>
    /\ UNCHANGED <<history_frames, fps_estimate, thresholds, global_stats, feed,
                   user_data, face_identity_manager, clock, appsrc, analyzer>>

\* what the caller reads in the dict it keeps: metadata, current_state and
\* raw_data were built when export_track_data returned, while 'statistics'
\* is track['stats'], the dict update goes on writing to (line 526)
ExportedNow ==
    LET data == exported[1]
    IN  IF data = EmptyDict THEN data
        ELSE [data EXCEPT !.statistics = tracks[data.track_id].stats]

-----------------------------------------------------------------------------
(* save_to_json: the exported dict as Python values with their types, the  *)
(* JSON document json.dump writes for them and the Python values json.load *)
(* reads back from that document.                                          *)

PyNone       == [py |-> "NoneType"]
PyBool(b)    == [py |-> "bool",  v |-> b]
PyInt(n)     == [py |-> "int",   v |-> n]
PyFloat(x)   == [py |-> "float", v |-> x]
PyStr(s)     == [py |-> "str",   v |-> s]
PyTuple(seq) == [py |-> "tuple", items |-> seq]
PyList(seq)  == [py |-> "list",  items |-> seq]
PyDict(d)    == [py |-> "dict",  items |-> d]

\* an optional float: None, or <<x>>
PyOptionalFloat(x) == IF x = None THEN PyNone ELSE PyFloat(x[1])

\* a bbox center (cx, cy): a tuple of two floats (lines 194-198)
PyPosition(position) == PyTuple(<<PyFloat(position[1]), PyFloat(position[2])>>)

\* a bounding box: the dict of its four coordinates
PyBbox(bbox) == PyDict([k \in DOMAIN bbox |-> PyFloat(bbox[k])])

\* track['stats'] (lines 89-97, 152, 170-174, 185-186)
PyStats(stats) ==
    PyDict([total_distance_norm |-> PyFloat(FSum(stats.total_distance_norm)),
            frames_stationary   |-> PyInt(stats.frames_stationary),
            frames_moving       |-> PyInt(stats.frames_moving),
            frames_sitting      |-> PyInt(stats.frames_sitting),
            fall_detected       |-> PyBool(stats.fall_detected),
            fall_timestamp      |-> PyOptionalFloat(stats.fall_timestamp),
            activity_changes    |->
                PyList([i \in 1..Len(stats.activity_changes) |->
                    PyDict([timestamp |->
                                PyFloat(stats.activity_changes[i].timestamp),
                            from |-> PyStr(stats.activity_changes[i].from),
                            to   |-> PyStr(stats.activity_changes[i].to)])])])

\* the dict export_track_data returned, `data`, with the types its values
\* have in Python (lines 510-532)
ExportedValue(data) ==
    IF data = EmptyDict THEN PyDict(EmptyDict)
    ELSE PyDict(
        [track_id |-> PyInt(data.track_id),
         metadata |-> PyDict(
             [first_seen       |-> PyOptionalFloat(data.metadata.first_seen),
              last_seen        |-> PyOptionalFloat(data.metadata.last_seen),
              total_frames     |-> PyInt(data.metadata.total_frames),
              duration_seconds |-> PyFloat(data.metadata.duration_seconds)]),
         current_state |-> PyDict(
             [activity      |-> PyStr(data.current_state.activity),
              last_position |->
                  IF data.current_state.last_position = None THEN PyNone
                  ELSE PyPosition(data.current_state.last_position[1]),
              last_bbox     |->
                  IF data.current_state.last_bbox = None THEN PyNone
                  ELSE PyBbox(data.current_state.last_bbox[1])]),
         statistics |-> PyStats(data.statistics),
         raw_data |-> PyDict(
             [timestamps |-> PyList([i \in 1..Len(data.raw_data.timestamps) |->
                                 PyFloat(data.raw_data.timestamps[i])]),
              positions  |-> PyList([i \in 1..Len(data.raw_data.positions) |->
                                 PyPosition(data.raw_data.positions[i])])])])

\* json.dump(data, f): the JSON document written for a Python value.  None
\* becomes null, an int a number without a fraction part, a float a number
\* with one, a tuple and a list both an array, a dict with string keys an
\* object.
RECURSIVE JsonDump(_)
JsonDump(value) ==
    CASE value.py = "NoneType" -> [json |-> "null"]
      [] value.py = "bool"  -> [json |-> IF value.v THEN "true" ELSE "false"]
      [] value.py = "int"   -> [json |-> "number", fraction |-> FALSE,
                                v |-> value.v]
      [] value.py = "float" -> [json |-> "number", fraction |-> TRUE,
                                v |-> value.v]
      [] value.py = "str"   -> [json |-> "string", v |-> value.v]
      [] value.py \in {"tuple", "list"} ->
             [json |-> "array",
              elements |-> [i \in 1..Len(value.items) |->
                               JsonDump(value.items[i])]]
      [] value.py = "dict"  ->
             [json |-> "object",
              members |-> [k \in DOMAIN value.items |->
                              JsonDump(value.items[k])]]

\* json.load(f): the Python value read from a JSON document.  Every array
\* becomes a list, a number without a fraction part an int, any other
\* number a float.
RECURSIVE JsonLoad(_)
JsonLoad(document) ==
    CASE document.json = "null"   -> PyNone
      [] document.json = "true"   -> PyBool(TRUE)
      [] document.json = "false"  -> PyBool(FALSE)
      [] document.json = "number" -> IF document.fraction
                                     THEN PyFloat(document.v)
                                     ELSE PyInt(document.v)
      [] document.json = "string" -> PyStr(document.v)
      [] document.json = "array"  ->
             PyList([i \in 1..Len(document.elements) |->
                        JsonLoad(document.elements[i])])
      [] document.json = "object" ->
             PyDict([k \in DOMAIN document.members |->
                        JsonLoad(document.members[k])])

\* save_to_json(track_id, filepath) (lines 534-539): the export, which
\* reads self.tracks[track_id], then open(filepath, 'w'), which raises
\* OSError when the path is not writable, then json.dump.  Nothing is
\* caught.  The value kept is the exception raised (None, or <<its name>>)
\* and the document written (None, or <<the document>>).
SaveToJson(track_id, writable) ==
    Query("save_to_json", track_id,
          IF writable
          THEN [error   |-> None,
                written |-> <<JsonDump(ExportedValue(
                                  ExportTrackDataResult(track_id)))>>]
          ELSE [error |-> <<"OSError">>, written |-> None])

-----------------------------------------------------------------------------
\* Python's truth value of track['last_seen']: None and 0.0 are false
Truthy(last_seen) == last_seen # None /\ last_seen[1] # 0

\* what get_all_active_tracks() returns when time.time() reads current_time
\* (lines 480-490); the list, which has no duplicates, as the set of its
\* elements
GetAllActiveTracksResult(current_time) ==
    { track_id \in DOMAIN tracks :
        /\ Truthy(tracks[track_id].last_seen)
        /\ current_time - tracks[track_id].last_seen[1] < 2 * TicksPerSecond }

\* what get_global_stats() returns when time.time() reads current_time
\* (lines 492-499)
GetGlobalStatsResult(current_time) ==
    [total_tracks_seen      |-> global_stats.total_tracks_seen,
     active_tracks          |-> Cardinality(GetAllActiveTracksResult(current_time)),
     total_falls_detected   |-> global_stats.total_falls_detected,
     total_activity_changes |-> global_stats.total_activity_changes]

\* a query of the whole store at the clock reading current_time, which is
\* kept with the value returned; self.tracks.items() inserts no key
QueryAll(op, current_time, result) ==
    /\ ret' = [op |-> op, track_id |-> 0,
               value |-> [current_time |-> current_time, result |-> result]]
    /\ UNCHANGED <<history_frames, fps_estimate, thresholds, global_stats,
                   tracks, feed, user_data, face_identity_manager, clock, exported,
                   appsrc, analyzer>>

GetAllActiveTracks(current_time) ==
    QueryAll("get_all_active_tracks", current_time,
             GetAllActiveTracksResult(current_time))

GetGlobalStats(current_time) ==
    QueryAll("get_global_stats", current_time,
             GetGlobalStatsResult(current_time))

\* tracker.remove_track(track_id): TemporalActivityTracker defines no such
\* attribute, so the call raises AttributeError and the store is as before
RemoveTrack(track_id) ==
    /\ ret' = [op |-> "remove_track", track_id |-> track_id,
               value |-> "AttributeError"]
    /\ UNCHANGED <<history_frames, fps_estimate, thresholds, global_stats,
                   tracks, feed, user_data, face_identity_manager, clock, exported,
                   appsrc, analyzer>>


-----------------------------------------------------------------------------
(* The observation source.  Observations are built the way the unit tests  *)
(* build them: a bounding box standing on the feet point (cx, cy) and the  *)
(* five joints the tracker reads.  A kind of observation is a pose, a      *)
(* displacement of the feet point since the track's previous observation   *)
(* and the time since then.                                                *)

StartFeet == <<300, 400>>

\* _bbox_from_center(cx, cy, height, width = 80)
BboxFromCenter(cx, cy, height) ==
    [xmin |-> cx - 40, ymin |-> cy - height, xmax |-> cx + 40, ymax |-> cy]

\* _keypoints_basic(cx, cy, standing), the nose as the fall test overwrites
\* it ("ankle": 5 px above the ankles), or no joint at all
KeypointsBasic(cx, cy, pose) ==
    IF pose.joints = "none" THEN <<>>
    ELSE [nose        |-> IF pose.joints = "floor"
                          THEN <<cx, (cy - 10) - 5, 90>>
                          ELSE <<cx, cy - pose.height + 20, 90>>,
          left_hip    |-> <<cx - 20, cy - pose.height + pose.hip_offset, 90>>,
          right_hip   |-> <<cx + 20, cy - pose.height + pose.hip_offset, 90>>,
          left_ankle  |-> <<cx - 30, cy - 10, 90>>,
          right_ankle |-> <<cx + 30, cy - 10, 90>>]

Standing    == [bbox_height |-> 250, height |-> 250, hip_offset |-> 150, joints |-> "all"]
Sitting     == [bbox_height |-> 180, height |-> 180, hip_offset |-> 50,  joints |-> "all"]
Crouching   == [bbox_height |-> 250, height |-> 250, hip_offset |-> 50,  joints |-> "all"]
Stooping    == [bbox_height |-> 250, height |-> 250, hip_offset |-> 120, joints |-> "all"]
Fallen      == [bbox_height |-> 250, height |-> 250, hip_offset |-> 150, joints |-> "floor"]
NoKeypoints == [bbox_height |-> 250, height |-> 250, hip_offset |-> 150, joints |-> "none"]
FlatBox     == [bbox_height |-> 0,   height |-> 250, hip_offset |-> 150, joints |-> "all"]
Inverted    == [bbox_height |-> -250, height |-> 250, hip_offset |-> 150, joints |-> "all"]

Kind(pose, step, dt) == [pose |-> pose, step |-> step, dt |-> dt]

\* the frame_data of the next observation of `track`, of kind `kind`; a
\* track's first observation is at the feet point StartFeet at time `start`
FrameData(track, kind, start) ==
    LET last == track.bboxes[Len(track.bboxes)]
        feet == IF track.bboxes = <<>> THEN StartFeet
                ELSE <<(last.xmin + last.xmax) \div 2, last.ymax>>
        cx == feet[1] + kind.step[1]
        cy == feet[2] + kind.step[2]
    IN  [timestamp  |-> IF track.last_seen = None THEN start
                        ELSE track.last_seen[1] + kind.dt,
         bbox       |-> BboxFromCenter(cx, cy, kind.pose.bbox_height),
         keypoints  |-> KeypointsBasic(cx, cy, kind.pose),
         confidence |-> 95]

\* One observation of kind `kind` for `track_id`: the track has had fewer
\* than max_frames observations, and the kind differs from the track's
\* previous one at most max_switches times.
Observe(track_id, kind, start, max_frames, max_switches) ==
    LET seen == track_id \in DOMAIN feed
        switch == seen /\ feed[track_id].kind # kind
    IN  /\ TrackOf(track_id).total_frames < max_frames
        /\ switch => feed[track_id].switches < max_switches
        /\ Update(track_id, FrameData(TrackOf(track_id), kind, start))
        /\ feed' = [i \in DOMAIN feed \cup {track_id} |->
                      IF i # track_id THEN feed[i]
                      ELSE [kind |-> kind,
                            sent |-> IF seen THEN feed[i].sent + 1 ELSE 1,
                            switches |-> IF switch THEN feed[i].switches + 1
                                         ELSE IF seen THEN feed[i].switches
                                         ELSE 0]]

\* the observation source after it has sent an observation of kind `kind`
\* for `track_id`
Sent(track_id, kind) ==
    LET seen == track_id \in DOMAIN feed
        switch == seen /\ feed[track_id].kind # kind
    IN  [i \in DOMAIN feed \cup {track_id} |->
            IF i # track_id THEN feed[i]
            ELSE [kind |-> kind,
                  sent |-> IF seen THEN feed[i].sent + 1 ELSE 1,
                  switches |-> IF switch THEN feed[i].switches + 1
                               ELSE IF seen THEN feed[i].switches
                               ELSE 0]]

\* One observation as in Observe, the source also keeping the list of the
\* frame_data it has sent for the track
ObserveLogged(track_id, kind, start, max_frames, max_switches) ==
    LET seen == track_id \in DOMAIN feed
        switch == seen /\ feed[track_id].kind # kind
        frame_data == FrameData(TrackOf(track_id), kind, start)
    IN  /\ TrackOf(track_id).total_frames < max_frames
        /\ switch => feed[track_id].switches < max_switches
        /\ Update(track_id, frame_data)
        /\ feed' = [i \in DOMAIN feed \cup {track_id} |->
                      IF i # track_id THEN feed[i]
                      ELSE [kind |-> kind,
                            sent |-> Sent(track_id, kind)[i].sent,
                            switches |-> Sent(track_id, kind)[i].switches,
                            log |-> IF seen THEN Append(feed[i].log, frame_data)
                                    ELSE <<frame_data>>]]

\* temporal_tracker.update_identity(track_id, name) and
\* temporal_tracker.get_identity(track_id): TemporalActivityTracker defines
\* neither attribute, so the call raises AttributeError
UpdateIdentityOutcome(track_id, name) == "AttributeError"
GetIdentityOutcome(track_id) == "AttributeError"

\* The body of the detection loop of process_frame_callback for one person
\* (callbacks.py lines 249-319): the tracker update, the identity step when
\* face recognition is enabled, the activity-change check and its report,
\* all inside one try ... except Exception that prints the error.  The
\* value kept is the label update returned, whether
\* detect_activity_change was called, whether the [CHANGE] line was
\* printed and the exception caught (None, or <<its name>>).  The name handed to
\* update_identity is whatever the face identity manager holds.
ProcessDetection(track_id, kind, start, max_frames) ==
    /\ TrackOf(track_id).total_frames < max_frames
    /\ \E s \in {Updated(track_id, FrameData(TrackOf(track_id), kind, start))} :
        LET identity_raised ==
                /\ user_data.face_recognition_enabled
                /\ UpdateIdentityOutcome(track_id, "Unknown") = "AttributeError"
            checked == ~identity_raised
            change  == IF checked
                       THEN DetectActivityChangeResult(track_id)'
                       ELSE None
            name_raised ==
                /\ change # None
                /\ GetIdentityOutcome(track_id) = "AttributeError"
        IN  /\ tracks' = TracksWith(track_id, s.track)
            /\ global_stats' = s.global
            /\ ret' = [op |-> "process_frame_callback", track_id |-> track_id,
                       value |-> [activity       |-> s.track.current_activity,
                                  change_checked |-> checked,
                                  change_printed |-> change # None
                                                     /\ ~name_raised,
                                  error |-> IF identity_raised \/ name_raised
                                            THEN <<"AttributeError">>
                                            ELSE None]]
    /\ feed' = Sent(track_id, kind)
    /\ UNCHANGED <<history_frames, fps_estimate, thresholds, user_data,
                       face_identity_manager, clock, exported,
                   appsrc, analyzer>>

\* TemporalActivityTracker(history_seconds, fps_estimate), each configuration
\* <<tenths of a second, fps>>
Construct(configs) ==
    /\ \E c \in configs :
          /\ history_frames = HistoryFrames(c[1], c[2])
          /\ fps_estimate = c[2]
    /\ thresholds = DefaultThresholds
    /\ global_stats = InitialGlobalStats
    /\ tracks = <<>>
    /\ feed = <<>>
    /\ ret = [op |-> "init", track_id |-> 0, value |-> None]

\* the application's settings: face recognition is off unless asked for
\* (user_data.face_recognition_enabled)
App(face_recognition) ==
    /\ user_data \in [face_recognition_enabled : face_recognition]
    /\ face_identity_manager = None
    /\ clock = 0
    /\ exported = None
    /\ appsrc = <<>>
    /\ analyzer = None

-----------------------------------------------------------------------------
(* FaceIdentityManager (face_identity_manager.py).  Times are ticks of the *)
(* clock, a confidence is a whole number of hundredths and a mean          *)
(* confidence a fraction of them; a global_id is None or <<the id>>.       *)

\* FaceIdentityManager(min_confirmations, identity_timeout) (lines 23-38)
NewFaceIdentityManager(min_confirmations, identity_timeout) ==
    [min_confirmations   |-> min_confirmations,
     identity_timeout    |-> identity_timeout,
     track_identities    |-> <<>>,
     identity_candidates |-> <<>>]

\* d with d[key] = value
DictWith(d, key, value) ==
    [k \in DOMAIN d \cup {key} |-> IF k = key THEN value ELSE d[k]]

\* an 'Unknown' result that replaces the identity the track has
UnknownResultOverwrites(track_identities, track_id, current_time) ==
    DictWith(track_identities, track_id,
             [name               |-> "Unknown",
              global_id          |-> None,
              confidence         |-> Zero,
              first_identified   |-> current_time,
              last_confirmed     |-> current_time,
              confirmation_count |-> 0,
              is_confirmed       |-> FALSE])

\* update_identity with name == "Unknown" (lines 54-68): track_identities
\* afterwards
UnknownResult(track_identities, track_id, current_time) ==
    IF track_id \notin DOMAIN track_identities
    THEN DictWith(track_identities, track_id,
                  [name               |-> "Unknown",
                   global_id          |-> None,
                   confidence         |-> Zero,
                   first_identified   |-> current_time,
                   last_confirmed     |-> current_time,
                   confirmation_count |-> 0,
                   is_confirmed       |-> FALSE])
    ELSE track_identities

\* the candidates kept (lines 80-83): those less than 5.0 s old
RecentCandidates(candidates, current_time) ==
    SelectSeq(candidates,
              LAMBDA c : current_time - c.timestamp < 5 * TicksPerSecond)

\* name_counts[name] (lines 88-91)
NameCount(candidates, name) ==
    Cardinality({i \in 1..Len(candidates) : candidates[i].name = name})

\* a best name that is the name of the latest candidate
BestNameLatest(candidates) ==
    <<candidates[Len(candidates)].name,
      NameCount(candidates, candidates[Len(candidates)].name)>>

\* max(name_counts.items(), key=lambda x: x[1]) (line 94): the (name, count)
\* of the highest count, of several the one whose name was inserted first
BestName(candidates) ==
    LET First(name) ==
            CHOOSE i \in 1..Len(candidates) :
                /\ candidates[i].name = name
                /\ \A j \in 1..(i - 1) : candidates[j].name # name
        best == CHOOSE i \in 1..Len(candidates) :
                    /\ i = First(candidates[i].name)
                    /\ \A j \in 1..Len(candidates) :
                          \/ NameCount(candidates, candidates[j].name)
                                < NameCount(candidates, candidates[i].name)
                          \/ /\ NameCount(candidates, candidates[j].name)
                                  = NameCount(candidates, candidates[i].name)
                             /\ i <= First(candidates[j].name)
    IN  <<candidates[best].name, NameCount(candidates, candidates[best].name)>>

\* a confirmation that asks for enough candidates, whatever their names
ConfirmsOnLength(candidates, min_confirmations) ==
    Len(candidates) >= min_confirmations

\* the two tests of lines 86 and 97
Confirms(candidates, min_confirmations) ==
    /\ Len(candidates) >= min_confirmations
    /\ BestName(candidates)[2] >= min_confirmations

\* the identity written on a confirmation (lines 99-140)
ConfirmedIdentity(track_identities, track_id, candidates, current_time) ==
    LET best_name == BestName(candidates)
        of_name == SelectSeq(candidates, LAMBDA c : c.name = best_name[1])
        avg_confidence ==
            Frac(SumInts([i \in 1..Len(of_name) |-> of_name[i].confidence]),
                 Len(of_name))
        with_id == SelectSeq(of_name, LAMBDA c : c.global_id # None)
        name_global_id == IF with_id = <<>> THEN None ELSE with_id[1].global_id
    IN  IF track_id \notin DOMAIN track_identities
        THEN [name               |-> best_name[1],
              global_id          |-> name_global_id,
              confidence         |-> avg_confidence,
              first_identified   |-> current_time,
              last_confirmed     |-> current_time,
              confirmation_count |-> best_name[2],
              is_confirmed       |-> TRUE]
        ELSE [track_identities[track_id] EXCEPT
                 !.name               = best_name[1],
                 !.global_id          = name_global_id,
                 !.confidence         = avg_confidence,
                 !.last_confirmed     = current_time,
                 !.confirmation_count = @ + 1,
                 !.is_confirmed       = TRUE]

\* update_identity(track_id, name, confidence, global_id) at current_time
\* (lines 40-142): the manager afterwards and the value returned
UpdatedIdentity(manager, track_id, name, confidence, global_id, current_time) ==
    IF name = "Unknown"
    THEN [manager  |-> [manager EXCEPT !.track_identities =
                            UnknownResult(@, track_id, current_time)],
          returned |-> FALSE]
    ELSE
    LET candidate == [name       |-> name,
                      global_id  |-> global_id,
                      confidence |-> confidence,
                      timestamp  |-> current_time]
        candidates ==
            RecentCandidates(Append(Get(manager.identity_candidates, track_id),
                                    candidate),
                             current_time)
        kept == [manager EXCEPT !.identity_candidates =
                                    DictWith(@, track_id, candidates)]
    IN  IF Confirms(candidates, manager.min_confirmations)
        THEN [manager  |-> [kept EXCEPT !.track_identities =
                                DictWith(@, track_id,
                                         ConfirmedIdentity(@, track_id,
                                                           candidates,
                                                           current_time))],
              returned |-> TRUE]
        ELSE [manager |-> kept, returned |-> FALSE]

\* the part of the store a call on the identity manager leaves alone
TrackerUnchanged ==
    UNCHANGED <<history_frames, fps_estimate, thresholds, global_stats, tracks,
                user_data, exported, appsrc, analyzer>>

\* update_identity with a recognition result <<name, confidence, global_id>>,
\* time.time() reading `clock`
UpdateIdentity(track_id, result, max_results) ==
    /\ track_id \in DOMAIN feed => feed[track_id].sent < max_results
    /\ \E u \in {UpdatedIdentity(face_identity_manager, track_id, result[1],
                                  result[2], result[3], clock)} :
          /\ face_identity_manager' = u.manager
          /\ ret' = [op |-> "update_identity", track_id |-> track_id,
                     value |-> u.returned]
    /\ feed' = Sent(track_id, result)
    /\ UNCHANGED clock
    /\ TrackerUnchanged

\* what get_identity(track_id) returns (lines 154-166)
GetIdentityResult(track_id) ==
    IF track_id \notin DOMAIN face_identity_manager.track_identities
    THEN "Unknown"
    ELSE face_identity_manager.track_identities[track_id].name

\* get_identity(track_id): a confirmed identity whose last confirmation is
\* more than identity_timeout old loses is_confirmed (lines 160-164)
GetIdentity(track_id) ==
    /\ face_identity_manager' =
          IF /\ track_id \in DOMAIN face_identity_manager.track_identities
             /\ face_identity_manager.track_identities[track_id].is_confirmed
             /\ clock - face_identity_manager.track_identities[track_id]
                            .last_confirmed
                  > face_identity_manager.identity_timeout
          THEN [face_identity_manager EXCEPT
                   !.track_identities[track_id].is_confirmed = FALSE]
          ELSE face_identity_manager
    /\ ret' = [op |-> "get_identity", track_id |-> track_id,
               value |-> GetIdentityResult(track_id)]
    /\ UNCHANGED <<feed, clock>>
    /\ TrackerUnchanged

\* what is_identified(track_id) returns (lines 208-212)
IsIdentifiedResult(track_id) ==
    /\ track_id \in DOMAIN face_identity_manager.track_identities
    /\ face_identity_manager.track_identities[track_id].is_confirmed
    /\ face_identity_manager.track_identities[track_id].name # "Unknown"

IsIdentified(track_id) ==
    /\ ret' = [op |-> "is_identified", track_id |-> track_id,
               value |-> IsIdentifiedResult(track_id)]
    /\ UNCHANGED <<face_identity_manager, feed, clock>>
    /\ TrackerUnchanged

\* what needs_recognition(track_id) returns (lines 224-243)
NeedsRecognitionResult(track_id) ==
    \/ track_id \notin DOMAIN face_identity_manager.track_identities
    \/ face_identity_manager.track_identities[track_id].name = "Unknown"
    \/ ~face_identity_manager.track_identities[track_id].is_confirmed
    \/ clock - face_identity_manager.track_identities[track_id].last_confirmed
          > face_identity_manager.identity_timeout

NeedsRecognition(track_id) ==
    /\ ret' = [op |-> "needs_recognition", track_id |-> track_id,
               value |-> NeedsRecognitionResult(track_id)]
    /\ UNCHANGED <<face_identity_manager, feed, clock>>
    /\ TrackerUnchanged

\* time.sleep(seconds) between two calls, up to the time `until`
Sleep(seconds, until) ==
    /\ clock + seconds <= until
    /\ clock' = clock + seconds
    /\ ret' = [op |-> "sleep", track_id |-> 0, value |-> seconds]
    /\ UNCHANGED <<face_identity_manager, feed>>
    /\ TrackerUnchanged

\* the default store of the application and a FaceIdentityManager of one of
\* the configurations <<min_confirmations, identity_timeout>>
ConstructIdentity(configs) ==
    /\ Construct({ <<30, 15>> })
    /\ user_data = [face_recognition_enabled |-> TRUE]
    /\ \E c \in configs :
          face_identity_manager = NewFaceIdentityManager(c[1], c[2])
    /\ clock = 0
    /\ exported = None
    /\ appsrc = <<>>
    /\ analyzer = None

-----------------------------------------------------------------------------
(* Spec: one person in front of the camera at 15 observations a second,    *)
(* standing, sitting down or walking.                                      *)

MaxFrames == 12
MaxSwitches == 2

Still == <<0, 0>>

ActivityKinds ==
    { Kind(Standing, Still, 10), Kind(Standing, <<5, 0>>, 10),
      Kind(Crouching, Still, 10), Kind(Crouching, <<2, 0>>, 10),
      Kind(NoKeypoints, Still, 10) }

\* TemporalActivityTracker(): history_seconds = 3.0, fps_estimate = 15
DefaultConfig == { <<30, 15>> }

Init == Construct(DefaultConfig) /\ App({FALSE})

Next == \E k \in ActivityKinds : Observe(1, k, 0, MaxFrames, MaxSwitches)

Spec == Init /\ [][Next]_vars

-----------------------------------------------------------------------------
(* SpecShort: one track under a history of 10 or of 9 frames, fed poses    *)
(* with and without keypoints, a bounding box of height 0, a jump of 50 px *)
(* and timestamps that do not advance.                                     *)

ShortFrames == 11
ShortSwitches == 1

Jump == <<30, 40>>

ShortKinds ==
    { Kind(Standing, Still, 10), Kind(Standing, Jump, 10),
      Kind(Sitting, Still, 10), Kind(NoKeypoints, Still, 10),
      Kind(FlatBox, Still, 10), Kind(Standing, Jump, 0) }

\* history_seconds = 0.7 and 0.6 at fps_estimate = 15: int(10.5), int(9.0)
ShortConfigs == { <<7, 15>>, <<6, 15>> }

InitShort == Construct(ShortConfigs) /\ App({FALSE})

NextShort ==
    \/ \E k \in ShortKinds : Observe(1, k, 0, ShortFrames, ShortSwitches)
    \/ GetSummary(1)

SpecShort == InitShort /\ [][NextShort]_vars

-----------------------------------------------------------------------------
(* SpecFall: one track, standing, then on the floor or without keypoints,  *)
(* observed every 0.02 s (3 ticks) or every 2/15 s (20 ticks).             *)

FallFrames == 21
FallSwitches == 1

FallKinds ==
    { Kind(Standing, Still, 3),    Kind(Standing, Still, 20),
      Kind(Fallen, Still, 3),      Kind(Fallen, Still, 20),
      Kind(NoKeypoints, Still, 3), Kind(NoKeypoints, Still, 20) }

InitFall == Construct(DefaultConfig) /\ App({FALSE})

NextFall ==
    \E k \in FallKinds : Observe(1, k, 0, FallFrames, FallSwitches)

SpecFall == InitFall /\ [][NextFall]_vars

-----------------------------------------------------------------------------
(* SpecStore: a Track Store of 10 frames of history with two persons and   *)
(* the caller's queries.  Track 1 stands still or jumps; track 2 stands    *)
(* still for its first 10 observations and then jumps; track 3 is only     *)
(* ever asked about.                                                       *)

StoreFrames == 12
StoreSwitches == 1

StoreKinds == { Kind(Standing, Still, 10), Kind(Standing, Jump, 10) }

\* the kind of the next observation of track 2
Script(track) ==
    IF track.total_frames < 10 THEN Kind(Standing, Still, 10)
    ELSE Kind(Standing, Jump, 10)

StoreConfig == { <<7, 15>> }

StoreIds == {1, 2, 3}

InitStore == Construct(StoreConfig) /\ App({FALSE})

NextStore ==
    \/ \E k \in StoreKinds : Observe(1, k, 0, StoreFrames, StoreSwitches)
    \/ Observe(2, Script(TrackOf(2)), 5, StoreFrames, StoreFrames)
    \/ \E i \in StoreIds : DetectActivityChange(i)

SpecStore == InitStore /\ [][NextStore]_vars

-----------------------------------------------------------------------------
(* SpecApi: the whole interface of the Track Store over a few              *)
(* observations.  Track 1 is seen from time 0 on, 1/15 s or 2 s after its  *)
(* previous observation; track 2 from 1/30 s on, every 1/15 s; track 3 is  *)
(* only ever asked about.  The clock read by a query of the whole store    *)
(* shows 0 s, 1 s, 2.1 s or 4 s.                                           *)

ApiFrames == 3
ApiSwitches == 1

ApiKinds == { Kind(Standing, Still, 10), Kind(Standing, Still, 300) }

ApiScript == Kind(Standing, Still, 10)

QueryTimes == { 0, 150, 315, 600 }

InitApi == Construct(StoreConfig) /\ App({FALSE})

NextApi ==
    \/ \E k \in ApiKinds : Observe(1, k, 0, ApiFrames, ApiSwitches)
    \/ Observe(2, ApiScript, 5, ApiFrames, ApiFrames)
    \/ \E i \in StoreIds : GetSummary(i)
    \/ \E i \in StoreIds : GetActivity(i)
    \/ \E i \in StoreIds : DetectActivityChange(i)
    \/ \E i \in StoreIds : ExportTrackData(i)
    \/ \E now \in QueryTimes : GetAllActiveTracks(now)
    \/ \E now \in QueryTimes : GetGlobalStats(now)
    \/ \E i \in StoreIds : RemoveTrack(i)

SpecApi == InitApi /\ [][NextApi]_vars

-----------------------------------------------------------------------------
(* SpecCallback: the frame callback, with face recognition disabled or     *)
(* enabled, get_summary and save_to_json to a path that is writable or    *)
(* not, on two persons who keep bobbing up and down:                       *)
(* hips low in one frame (hip ratio 0.76) and half way up in the next      *)
(* (0.48), so that the mean hip ratio of the last 5 samples crosses        *)
(* hip_ratio_sitting with every frame.                                     *)

CallbackFrames == 21

CallbackIds == {1, 2}

\* the kind of the next observation of a bobbing person
Bobbing(track) ==
    IF track.total_frames % 2 = 0 THEN Kind(Crouching, Still, 10)
    ELSE Kind(Stooping, Still, 10)

InitCallback == Construct(StoreConfig) /\ App(BOOLEAN)

NextCallback ==
    \E i \in CallbackIds :
        \/ ProcessDetection(i, Bobbing(TrackOf(i)), 5 * (i - 1), CallbackFrames)
        \/ GetSummary(i)
        \/ \E writable \in BOOLEAN : SaveToJson(i, writable)

SpecCallback == InitCallback /\ [][NextCallback]_vars

-----------------------------------------------------------------------------
(* SpecReplay: the two persons of SpecStore and get_activity for track 1   *)
(* and for track 3, the observation source keeping what it sent.           *)

ReplayFrames == 11
ReplaySwitches == 1

\* the ids get_activity is called for
ReplayAsked == {1, 3}

InitReplay == Construct(StoreConfig) /\ App({FALSE})

NextReplay ==
    \/ \E k \in StoreKinds :
          ObserveLogged(1, k, 0, ReplayFrames, ReplaySwitches)
    \/ ObserveLogged(2, Script(TrackOf(2)), 5, ReplayFrames, ReplayFrames)
    \/ \E i \in ReplayAsked : GetActivity(i)

SpecReplay == InitReplay /\ [][NextReplay]_vars

-----------------------------------------------------------------------------
(* SpecDegenerate: one track of the default store that moves 30 px down    *)
(* with every observation; an observation is well formed, or its timestamp *)
(* repeats the previous one or lies 1/15 s before it, or its bbox has      *)
(* height 0 or -250, or it has no keypoints.  All displacements are        *)
(* vertical, so every distance is a whole number of pixels.                *)

DegenerateFrames == 11
DegenerateSwitches == 1

Down == <<0, 30>>

DegenerateKinds ==
    { Kind(Standing, Down, 10), Kind(Standing, Down, 0),
      Kind(Standing, Down, -10), Kind(FlatBox, Down, 10),
      Kind(Inverted, Down, 10), Kind(NoKeypoints, Down, 10) }

NextDegenerate ==
    \E k \in DegenerateKinds :
        Observe(1, k, 0, DegenerateFrames, DegenerateSwitches)

SpecDegenerate == Init /\ [][NextDegenerate]_vars

-----------------------------------------------------------------------------
(* SpecWalk: the moving person of examples/test_har_tracker.py, 5 px to    *)
(* the right with every observation at 15 observations a second, beside a  *)
(* person creeping 1 px per observation and one standing still, each       *)
(* asked for its summary.                                                  *)

WalkFrames == 50
WalkSwitches == 0

Walk == Kind(Standing, <<5, 0>>, 10)

WalkKinds == { Walk, Kind(Standing, <<1, 0>>, 10), Kind(Standing, Still, 10) }

NextWalk ==
    \/ \E k \in WalkKinds : Observe(1, k, 0, WalkFrames, WalkSwitches)
    \/ GetSummary(1)

SpecWalk == Init /\ [][NextWalk]_vars

-----------------------------------------------------------------------------
(* SpecIdentity: one track and a FaceIdentityManager with the default      *)
(* timeout of 5 s that asks for 2 or for 3 confirmations.  Face            *)
(* recognition names the person Ahmed or Sara or answers 'Unknown', and    *)
(* between two calls 2.5 s or one tick more may pass, so that a candidate  *)
(* and a confirmation can be exactly 5 s old, younger and older.           *)

MaxResults == 5
MaxSleeps == 2

Recognized ==
    { <<"Ahmed", 80, <<"g1">>>>, <<"Sara", 90, None>>, <<"Unknown", 0, None>> }

Naps == { (5 * TicksPerSecond) \div 2, (5 * TicksPerSecond) \div 2 + 1 }

IdentityConfigs == { <<2, 5 * TicksPerSecond>>, <<3, 5 * TicksPerSecond>> }

InitIdentity == ConstructIdentity(IdentityConfigs)

NextIdentity ==
    \/ \E result \in Recognized : UpdateIdentity(1, result, MaxResults)
    \/ GetIdentity(1)
    \/ IsIdentified(1)
    \/ NeedsRecognition(1)
    \/ \E seconds \in Naps :
          Sleep(seconds, MaxSleeps * ((5 * TicksPerSecond) \div 2 + 1))

SpecIdentity == InitIdentity /\ [][NextIdentity]_vars

-----------------------------------------------------------------------------
(* SpecConfig: one track of the default store whose thresholds dictionary  *)
(* is updated while the track is observed.  The person walks 5 px to the   *)
(* right with every observation for 14 observations and then lies on the   *)
(* floor; the observations arrive at a uniform spacing of 1/15 s           *)
(* (normalized speed 0.3), 1/30 s or 0.02 s.  An update of the dictionary  *)
(* raises speed_stationary to 0.5, or raises fall_time_threshold to 1 s,   *)
(* or restores both defaults.                                              *)

ConfigFrames == 18
ConfigUpdates == 2

\* the spacings of the observations, in ticks
Spacings == { TicksPerSecond \div 15, TicksPerSecond \div 30,
              TicksPerSecond \div 50 }

\* the kind of the next observation of a person who walks and then falls,
\* observed every dt ticks
Stumbling(track, dt) ==
    IF track.total_frames < 14 THEN Kind(Standing, <<5, 0>>, dt)
    ELSE Kind(Fallen, Still, dt)

ThresholdsConfigs ==
    { [speed_stationary |-> <<1, 2>>],
      [fall_time_threshold |-> <<1, 1>>],
      [speed_stationary |-> <<1, 10>>, fall_time_threshold |-> <<1, 2>>] }

\* tracker.thresholds.update(config); the observation source counts the
\* updates that changed the dictionary
ThresholdsUpdate(config, max_updates) ==
    LET updated == [key \in DOMAIN thresholds \cup DOMAIN config |->
                       IF key \in DOMAIN config THEN config[key]
                       ELSE thresholds[key]]
        changes == IF 0 \in DOMAIN feed THEN feed[0].sent ELSE 0
    IN  /\ updated # thresholds
        /\ changes < max_updates
        /\ thresholds' = updated
        /\ feed' = [i \in DOMAIN feed \cup {0} |->
                      IF i # 0 THEN feed[i]
                      ELSE [kind |-> config, sent |-> changes + 1,
                            switches |-> 0]]
        /\ ret' = [op |-> "thresholds.update", track_id |-> 0, value |-> None]
        /\ UNCHANGED <<history_frames, fps_estimate, global_stats, tracks,
                       user_data, face_identity_manager, clock, exported,
                   appsrc, analyzer>>

NextConfig ==
    \/ \E dt \in Spacings :
          /\ 1 \in DOMAIN feed => dt = feed[1].kind.dt
          /\ Observe(1, Stumbling(TrackOf(1), dt), 0, ConfigFrames, ConfigFrames)
    \/ \E config \in ThresholdsConfigs : ThresholdsUpdate(config, ConfigUpdates)

SpecConfig == Init /\ [][NextConfig]_vars

-----------------------------------------------------------------------------
(* SpecFalls: three persons of the default store observed every 0.02 s.    *)
(* Person 1 stands for 12 observations and then lies on the floor, person  *)
(* 2 does so after 14 observations, person 3 keeps standing.               *)

FallsFrames == 19

FallsIds == {1, 2, 3}

\* the kind of the next observation of person track_id
Falling(track_id, track) ==
    IF track_id < 3 /\ track.total_frames >= 10 + 2 * track_id
    THEN Kind(Fallen, Still, 3)
    ELSE Kind(Standing, Still, 3)

NextFalls ==
    \E i \in FallsIds :
        Observe(i, Falling(i, TrackOf(i)), 0, FallsFrames, FallsFrames)

SpecFalls == Init /\ [][NextFalls]_vars

-----------------------------------------------------------------------------
(* SpecExport: the bobbing person of SpecCallback in the default store,    *)
(* and a caller that exports the track's data and keeps the dict.          *)

ExportFrames == 14

NextExport ==
    \/ Observe(1, Bobbing(TrackOf(1)), 0, ExportFrames, ExportFrames)
    \/ KeepExport(1)

SpecExport == Init /\ [][NextExport]_vars

-----------------------------------------------------------------------------
(* SpecCapacity: persons 1 and 2 of SpecFalls in a store whose history     *)
(* holds 9, 10, 14 or 15 entries.                                          *)

CapacityFrames == 19

\* history_seconds x fps_estimate = 0.6 x 15, 0.7 x 15, 1.0 x 14, 1.0 x 15
CapacityConfigs == { <<6, 15>>, <<7, 15>>, <<10, 14>>, <<10, 15>> }

InitCapacity == Construct(CapacityConfigs) /\ App({FALSE})

NextCapacity ==
    \E i \in {1, 2} :
        Observe(i, Falling(i, TrackOf(i)), 0, CapacityFrames, CapacityFrames)

SpecCapacity == InitCapacity /\ [][NextCapacity]_vars

-----------------------------------------------------------------------------
(* The ChokePoint analyzer (apps/chokepoint_analyzer.py).  The main thread *)
(* pushes one image at a time into the pipeline and polls the handler for  *)
(* the callback's completion; the callback runs on the pipeline's          *)
(* streaming thread, once for every buffer, in the order pushed.  A        *)
(* detection is tagged here with the frame whose image it was found in.    *)

\* ChokePointCallbackHandler.__init__ / reset (lines 118-128, 135-144)
Handler(frame_number) ==
    [frame_number        |-> frame_number,
     detections          |-> <<>>,
     processing_complete |-> FALSE]

\* the eye positions extract_eye_positions finds in the image of a frame
Detection(frame) == [person_id |-> "-1", frame |-> frame]

max_wait_iterations == 50

ChokePointUnchanged ==
    UNCHANGED <<history_frames, fps_estimate, thresholds, global_stats, tracks,
                feed, face_identity_manager, clock, exported>>

\* process_image up to the wait loop (lines 532-568): frame idx of the video
\* folder; the handler is reset and the buffer pushed, unless the image
\* cannot be read or the push fails, when [] is returned at once
ProcessImage(max_frames) ==
    /\ analyzer.i = None
    /\ analyzer.idx < max_frames
    /\ \E readable, pushed \in BOOLEAN :
          LET frame_number == analyzer.idx
          IN  /\ user_data' = IF readable THEN Handler(frame_number)
                              ELSE user_data
              /\ appsrc' = IF readable /\ pushed
                           THEN Append(appsrc, [frame |-> frame_number,
                                                appended |-> FALSE])
                           ELSE appsrc
              /\ analyzer' = [idx |-> analyzer.idx + 1,
                              i |-> IF readable /\ pushed THEN <<0>> ELSE None]
              /\ ret' = IF readable /\ pushed THEN ret
                        ELSE [op |-> "process_image",
                              frame_number |-> frame_number, value |-> <<>>]
    /\ ChokePointUnchanged

\* one turn of the wait loop that finds the callback not completed and
\* sleeps 0.1 s (lines 575-589)
Wait ==
    /\ analyzer.i # None
    /\ analyzer.i[1] < max_wait_iterations
    /\ ~user_data.processing_complete
    /\ analyzer' = [analyzer EXCEPT !.i = <<analyzer.i[1] + 1>>]
    /\ UNCHANGED <<ret, user_data, appsrc>>
    /\ ChokePointUnchanged

\* the end of process_image (lines 582-583, 591-601): the handler's
\* detections once processing_complete is set, [] after the last sleep
ReturnDetections ==
    /\ analyzer.i # None
    /\ \/ user_data.processing_complete
       \/ analyzer.i[1] = max_wait_iterations
    /\ ret' = [op |-> "process_image", frame_number |-> analyzer.idx - 1,
               value |-> IF user_data.processing_complete
                         THEN user_data.detections ELSE <<>>]
    /\ analyzer' = [analyzer EXCEPT !.i = None]
    /\ UNCHANGED <<user_data, appsrc>>
    /\ ChokePointUnchanged

\* chokepoint_frame_callback for the oldest buffer in the pipeline, its try
\* block (lines 163-239): the detection is appended to user_data.detections
CallbackAppend ==
    /\ appsrc # <<>>
    /\ ~appsrc[1].appended
    /\ user_data' = [user_data EXCEPT
                        !.detections = Append(@, Detection(appsrc[1].frame))]
    /\ appsrc' = [appsrc EXCEPT ![1].appended = TRUE]
    /\ UNCHANGED <<ret, analyzer>>
    /\ ChokePointUnchanged

\* chokepoint_frame_callback, its finally block (lines 244-248)
CallbackComplete ==
    /\ appsrc # <<>>
    /\ appsrc[1].appended
    /\ user_data' = [user_data EXCEPT !.processing_complete = TRUE]
    /\ appsrc' = Tail(appsrc)
    /\ UNCHANGED <<ret, analyzer>>
    /\ ChokePointUnchanged

(* SpecChoke: a video folder of a few frames.                              *)

ChokeFrames == 3

\* create_pipeline_with_appsrc (lines 454-461) before the first frame
InitChoke ==
    /\ Construct(DefaultConfig)
    /\ user_data = Handler(0)
    /\ face_identity_manager = None
    /\ clock = 0
    /\ exported = None
    /\ appsrc = <<>>
    /\ analyzer = [idx |-> 0, i |-> None]

NextChoke ==
    \/ ProcessImage(ChokeFrames)
    \/ Wait
    \/ ReturnDetections
    \/ CallbackAppend
    \/ CallbackComplete

SpecChoke == InitChoke /\ [][NextChoke]_vars

-----------------------------------------------------------------------------
(* The claims.                                                             *)

Concrete == {"stationary", "moving", "sitting"}

\* the track was updated by the step
WasUpdated(track_id) ==
    /\ track_id \in DOMAIN tracks'
    /\ tracks'[track_id].total_frames # TrackOf(track_id).total_frames

(* C1 (SpecShort).  For as long as a track's history holds fewer than 10   *)
(* entries its current_activity is 'unknown', and so is the label update   *)
(* returned for it, whatever the observations were.                        *)
C1_UnknownBelowTenEntries ==
    \A id \in DOMAIN tracks :
        Len(tracks[id].positions) < 10 =>
            /\ tracks[id].current_activity = "unknown"
            /\ (ret.op = "update" /\ ret.track_id = id) => ret.value = "unknown"

\* a track that has had 10 or more observations and still holds fewer than
\* 10 of them
C1_Witness ==
    \E id \in DOMAIN tracks :
        /\ tracks[id].total_frames >= 10
        /\ Len(tracks[id].positions) < 10
        /\ ret = [op |-> "update", track_id |-> id, value |-> "unknown"]

(* C2 (Spec).  Once the classifier runs (10 or more history entries), the  *)
(* label is 'sitting' if the mean hip ratio of those of the last 5 samples *)
(* that have the hip and ankle joints (0.5 when none has) is above         *)
(* hip_ratio_sitting and the normalized speed over the last at most 30     *)
(* samples is below 1.5 x speed_stationary; otherwise 'stationary' if that *)
(* speed is below speed_stationary; otherwise 'moving'.                    *)
C2_ClassifierRule ==
    \A id \in DOMAIN tracks :
        LET track == tracks[id]
            samples == [i \in 1..Len(track.keypoints) |->
                           <<track.keypoints[i], track.bboxes[i]>>]
            HasJoints(sample) ==
                /\ {"left_hip", "right_hip", "left_ankle", "right_ankle"}
                       \subseteq DOMAIN sample[1]
                /\ GetBboxHeight(sample[2]) > 0
            with_joints == SelectSeq(LastN(samples, 5), HasJoints)
            mean_hip_ratio ==
                IF with_joints = <<>> THEN <<1, 2>>
                ELSE FMean([k \in 1..Len(with_joints) |->
                              CalculateHipRatio(with_joints[k][1],
                                                with_joints[k][2])])
            speed == CalculateNormalizedSpeed(track, 30)
        IN  Len(track.positions) >= 10 =>
               track.current_activity =
                   IF /\ FLess(thresholds.hip_ratio_sitting, mean_hip_ratio)
                      /\ FLess(speed, FScale(thresholds.speed_stationary, 3, 2))
                   THEN "sitting"
                   ELSE IF FLess(speed, thresholds.speed_stationary)
                   THEN "stationary"
                   ELSE "moving"

\* a track labelled sitting although it is not below the stationary speed
\* (the sitting rule won), after a frame without keypoints
C2_Witness ==
    \E id \in DOMAIN tracks :
        /\ tracks[id].current_activity = "sitting"
        /\ ~FLess(CalculateNormalizedSpeed(tracks[id], 30),
                  thresholds.speed_stationary)
        /\ \E i \in DOMAIN tracks[id].keypoints : tracks[id].keypoints[i] = <<>>

(* C6 (SpecShort).  total_frames of a track is the number of update calls  *)
(* made for it, also after the history has started to drop old entries,    *)
(* and nothing but an update of that track changes it.                     *)
C6_TotalFramesCountsUpdates ==
    \A id \in DOMAIN tracks :
        tracks[id].total_frames = IF id \in DOMAIN feed THEN feed[id].sent ELSE 0

\* a track with more frames counted than its history holds, asked for its
\* summary
C6_Witness ==
    \E id \in DOMAIN tracks :
        /\ tracks[id].total_frames > Len(tracks[id].timestamps)
        /\ Len(tracks[id].timestamps) >= 10
        /\ ret.op = "get_summary"
        /\ ret.value # None

(* C7 (Spec).  'unknown' is not re-entered: once a track's                 *)
(* current_activity is stationary, moving or sitting, no step sets it back *)
(* to 'unknown'; the three labels follow one another freely.               *)
C7_UnknownNotReentered ==
    [][\A id \in DOMAIN tracks :
          tracks[id].current_activity \in Concrete =>
              /\ id \in DOMAIN tracks'
              /\ tracks'[id].current_activity \in Concrete]_vars

\* a track that went from one concrete label to a second and on to the
\* third
C7_Witness ==
    \E id \in DOMAIN tracks :
        LET changes == tracks[id].stats.activity_changes
        IN  /\ Len(changes) = 2
            /\ {changes[1].from, changes[1].to, changes[2].to} = Concrete
            /\ tracks[id].current_activity = changes[2].to

(* C3 (SpecFall).  An update sets fall_detected on a track that does not   *)
(* have it yet exactly when, after the observation is appended, the track  *)
(* holds at least 15 entries, at least 5 of the last 15 yield a pose       *)
(* height, start = mean of the first 3 and end = mean of the last 3 valid  *)
(* heights satisfy start > 0 and (start - end) / start > fall_drop_ratio,  *)
(* and the last 15 entries span less than fall_time_threshold; any other   *)
(* step leaves fall_detected as it was.                                    *)
FallCondition(track) ==
    LET n == Len(track.keypoints)
        samples == [i \in 1..n |-> <<track.keypoints[i], track.bboxes[i]>>]
        HasHeight(sample) ==
            /\ {"nose", "left_ankle", "right_ankle"} \subseteq DOMAIN sample[1]
            /\ GetBboxHeight(sample[2]) > 0
        valid == SelectSeq(LastN(samples, 15), HasHeight)
        height == [k \in 1..Len(valid) |->
                      CalculatePoseHeightNormalized(valid[k][1], valid[k][2])]
        start == FMean(<<height[1], height[2], height[3]>>)
        end   == FMean(<<height[Len(valid) - 2], height[Len(valid) - 1],
                         height[Len(valid)]>>)
        span  == track.timestamps[n] - track.timestamps[n - 14]
    IN  /\ n >= 15
        /\ Len(valid) >= 5
        /\ FPositive(start)
        /\ FLess(thresholds.fall_drop_ratio, FDiv(FSub(start, end), start))
        /\ FLess(Frac(span, TicksPerSecond), thresholds.fall_time_threshold)

C3_FallSetExactlyWhen ==
    [][\A id \in DOMAIN tracks' :
          tracks'[id].stats.fall_detected =
              \/ TrackOf(id).stats.fall_detected
              \/ WasUpdated(id) /\ FallCondition(tracks'[id])]_vars

\* the last update flagged the fall
C3_Witness ==
    \E id \in DOMAIN tracks :
        /\ tracks[id].stats.fall_detected
        /\ tracks[id].stats.fall_timestamp = tracks[id].last_seen
        /\ ret = [op |-> "update", track_id |-> id,
                  value |-> tracks[id].current_activity]

(* C4.  Scenario D: a track's first 10 observations show a normal standing *)
(* pose (pose height at least 0.8 of the bbox height), its next 10 have    *)
(* the nose within 5 px of the mean ankle height and arrive within 0.4 s.  *)
NoseAtAnkles(keypoints) ==
    /\ {"nose", "left_ankle", "right_ankle"} \subseteq DOMAIN keypoints
    /\ Abs(keypoints["left_ankle"][2] + keypoints["right_ankle"][2]
               - 2 * keypoints["nose"][2]) <= 2 * 5

StandingPose(keypoints, bbox) ==
    LET h == CalculatePoseHeightNormalized(keypoints, bbox)
    IN  h # None /\ ~FLess(h, <<4, 5>>)

ScenarioD(track) ==
    /\ track.total_frames >= 20
    /\ Len(track.keypoints) = track.total_frames
    /\ \A i \in 1..10 : StandingPose(track.keypoints[i], track.bboxes[i])
    /\ \A i \in 11..20 : NoseAtAnkles(track.keypoints[i])
    /\ \A i \in 1..20 : track.bboxes[i] = track.bboxes[1]
    /\ 5 * (track.timestamps[20] - track.timestamps[11]) <= 2 * TicksPerSecond

\* C4 as claimed (SpecFall): after scenario D get_summary reports
\* fall_detected
C4_ScenarioD_AsClaimed ==
    \A id \in DOMAIN tracks :
        ScenarioD(tracks[id]) => GetSummaryResult(id)[1].stats.fall_detected

(* C4 as amended (SpecFall): after scenario D get_summary reports          *)
(* fall_detected, provided the 6th to the 20th observation (the 15 entries *)
(* the detector looks at on the 20th update) span less than                *)
(* fall_time_threshold.                                                    *)
C4_ScenarioD_WithinWindow ==
    \A id \in DOMAIN tracks :
        ( /\ ScenarioD(tracks[id])
          /\ FLess(Frac(tracks[id].timestamps[20] - tracks[id].timestamps[6],
                        TicksPerSecond),
                   thresholds.fall_time_threshold) )
        => GetSummaryResult(id)[1].stats.fall_detected

\* scenario D as the unit test feeds it, 0.02 s apart throughout, flagged
C4_Witness ==
    \E id \in DOMAIN tracks :
        /\ ScenarioD(tracks[id])
        /\ tracks[id].total_frames = 20
        /\ tracks[id].timestamps[20] - tracks[id].timestamps[1] = 19 * 3
        /\ GetSummaryResult(id)[1].stats.fall_detected

(* C5 (SpecFall).  Fall detection is sticky: once fall_detected is true    *)
(* for a track, every later summary of the track reports it, with the      *)
(* fall_timestamp of the update that first set it.                         *)
C5_FallSticky ==
    [][\A id \in DOMAIN tracks :
          LET before == TrackOf(id).stats
              after  == GetSummaryResult(id)'[1].stats
          IN  /\ before.fall_detected =>
                    /\ after.fall_detected
                    /\ after.fall_timestamp = before.fall_timestamp
              /\ (~before.fall_detected /\ tracks'[id].stats.fall_detected) =>
                    after.fall_timestamp = tracks'[id].last_seen]_vars

\* a flagged track observed again while the detector still fires: the
\* timestamp is the older one
C5_Witness ==
    \E id \in DOMAIN tracks :
        /\ tracks[id].stats.fall_detected
        /\ tracks[id].stats.fall_timestamp # tracks[id].last_seen
        /\ DetectFallSimple(tracks[id], 15)

RECURSIVE LoggedChanges(_)
LoggedChanges(ids) ==
    IF ids = {} THEN 0
    ELSE LET id == CHOOSE i \in ids : TRUE
         IN  Len(tracks[id].stats.activity_changes) + LoggedChanges(ids \ {id})

(* C8 (SpecStore).  A step appends one event (the update's timestamp,      *)
(* previous_activity, current_activity) to a track's log and adds 1 to     *)
(* total_activity_changes exactly when it is an update of that track after *)
(* which previous_activity is concrete and differs from current_activity;  *)
(* otherwise log and counter stay.  total_activity_changes is always the   *)
(* summed length of all logs.                                              *)
C8_ChangeLogged ==
    /\ [][\A id \in DOMAIN tracks' :
             LET before == TrackOf(id)
                 after  == tracks'[id]
                 transition ==
                     /\ WasUpdated(id)
                     /\ after.previous_activity \in Concrete
                     /\ after.previous_activity # after.current_activity
             IN  IF transition
                 THEN /\ after.stats.activity_changes =
                            Append(before.stats.activity_changes,
                                   [timestamp |-> after.last_seen[1],
                                    from |-> after.previous_activity,
                                    to   |-> after.current_activity])
                      /\ global_stats'.total_activity_changes =
                            global_stats.total_activity_changes + 1
                 ELSE /\ after.stats.activity_changes =
                            before.stats.activity_changes
                      /\ WasUpdated(id) =>
                            global_stats'.total_activity_changes =
                                global_stats.total_activity_changes]_vars
    /\ [](global_stats.total_activity_changes = LoggedChanges(DOMAIN tracks))

\* two tracks with one logged change each, and both counted
C8_Witness ==
    /\ {1, 2} \subseteq DOMAIN tracks
    /\ Len(tracks[1].stats.activity_changes) = 1
    /\ Len(tracks[2].stats.activity_changes) = 1
    /\ tracks[1].current_activity \in Concrete
    /\ global_stats.total_activity_changes = 2

\* C9 as claimed (SpecStore): the change is reported once; asking again
\* returns no change
C9_OneShot_AsClaimed ==
    (ret.op = "detect_activity_change" /\ ret.value # None)
        => DetectActivityChangeResult(ret.track_id) = None

(* C9 as amended (SpecStore).  detect_activity_change reports a change     *)
(* from the update that caused the transition until the next update of     *)
(* that track: after an update it reports a change exactly when that       *)
(* update logged one, and no other step alters what it reports.            *)
C9_ChangeUntilNextUpdate ==
    [][\A id \in DOMAIN tracks' :
          IF WasUpdated(id)
          THEN (DetectActivityChangeResult(id)' # None) <=>
                   ( Len(tracks'[id].stats.activity_changes)
                         > Len(TrackOf(id).stats.activity_changes) )
          ELSE DetectActivityChangeResult(id)' = DetectActivityChangeResult(id)
      ]_vars

\* a track with a logged change, updated again without one and then asked:
\* no change
C9_Witness ==
    /\ ret.op = "detect_activity_change"
    /\ ret.value = None
    /\ ret.track_id \in DOMAIN tracks
    /\ Len(tracks[ret.track_id].stats.activity_changes) = 1
    /\ tracks[ret.track_id].stats.activity_changes[1].timestamp
           < tracks[ret.track_id].last_seen[1]

(* C10 (SpecStore).  detect_activity_change reports a change iff           *)
(* current_activity differs from previous_activity and previous_activity   *)
(* is concrete; the change it reports is the latest entry of the track's   *)
(* log; and while no update intervenes, asking again returns what the last *)
(* call returned.                                                          *)
C10_DetectIdempotent ==
    /\ \A id \in DOMAIN tracks :
          LET track  == tracks[id]
              log    == track.stats.activity_changes
              result == DetectActivityChangeResult(id)
          IN  /\ (result # None) <=>
                     /\ track.current_activity # track.previous_activity
                     /\ track.previous_activity \in Concrete
              /\ result # None =>
                     /\ log # <<>>
                     /\ log[Len(log)] = [timestamp |-> result[1].timestamp[1],
                                         from |-> result[1].from,
                                         to   |-> result[1].to]
                     /\ result[1].track_id = id
    /\ ret.op = "detect_activity_change" =>
          DetectActivityChangeResult(ret.track_id) = ret.value

\* a change has been reported to the caller and is still what a further
\* call reports
C10_Witness ==
    /\ ret.op = "detect_activity_change"
    /\ ret.value # None
    /\ ret.value[1].from = "stationary"
    /\ ret.value[1].to = "moving"
    /\ DetectActivityChangeResult(ret.track_id) = ret.value

-----------------------------------------------------------------------------
(* C11 (SpecStore).  Tracks are independent: an update for one track       *)
(* leaves the Track State of every other track the store holds as it was   *)
(* (history, first_seen, last_seen, total_frames, current_activity,        *)
(* previous_activity, stats), and a track's current_activity changes only  *)
(* in a step that is an update for that same track.                        *)
C11_TracksIndependent ==
    [][/\ \A a \in StoreIds :
            (ret'.op = "update" /\ ret'.track_id = a /\ WasUpdated(a)) =>
                \A b \in DOMAIN tracks \ {a} :
                    b \in DOMAIN tracks' /\ tracks'[b] = tracks[b]
       /\ \A b \in DOMAIN tracks' :
            tracks'[b].current_activity # TrackOf(b).current_activity =>
                ret'.op = "update" /\ ret'.track_id = b /\ WasUpdated(b)]_vars

\* track 2 has just been updated and is moving while track 1, classified
\* before, is still stationary
C11_Witness ==
    /\ ret.op = "update" /\ ret.track_id = 2 /\ ret.value = "moving"
    /\ 1 \in DOMAIN tracks
    /\ tracks[1].total_frames >= 10
    /\ tracks[1].current_activity = "stationary"
    /\ tracks[2].current_activity = "moving"

-----------------------------------------------------------------------------
\* the five sequences of the rolling history of a Track State
History(track) ==
    <<track.timestamps, track.positions, track.bboxes, track.keypoints,
      track.confidences>>

\* the most recent `capacity` entries of `old` followed by x
MostRecent(old, x, capacity) == LastN(Append(old, x), capacity)

(* C12 (SpecShort).  The five sequences of a track's history always have   *)
(* the length min(total_frames, H), H = history_frames; an update puts the *)
(* new observation last, keeps the entries before it in their order and,   *)
(* when the history was full, drops exactly the oldest one.                *)
C12_HistoryBounded ==
    /\ [](\A id \in DOMAIN tracks : \A i \in 1..5 :
            Len(History(tracks[id])[i])
                = Min(tracks[id].total_frames, history_frames))
    /\ [][WasUpdated(1) =>
            LET old == TrackOf(1)
                fd  == FrameData(old, feed'[1].kind, 0)
            IN  History(tracks'[1]) =
                  <<MostRecent(old.timestamps, fd.timestamp, history_frames),
                    MostRecent(old.positions, GetBboxCenter(fd.bbox),
                               history_frames),
                    MostRecent(old.bboxes, fd.bbox, history_frames),
                    MostRecent(old.keypoints, fd.keypoints, history_frames),
                    MostRecent(old.confidences, fd.confidence,
                               history_frames)>>]_vars

\* two observations have been dropped from a full history
C12_Witness ==
    /\ 1 \in DOMAIN tracks
    /\ tracks[1].total_frames = history_frames + 2
    /\ Len(tracks[1].timestamps) = history_frames
    /\ ret.op = "update"

-----------------------------------------------------------------------------
\* the track ids that have received at least one update
Observed == DOMAIN feed

(* C13 (SpecApi).  total_tracks_seen is the number of distinct track ids   *)
(* that have received at least one update, whatever queries (get_summary,  *)
(* get_activity, detect_activity_change, export_track_data) were made for  *)
(* observed or unobserved ids before or after.                             *)
C13_TracksSeenCountsObserved ==
    global_stats.total_tracks_seen = Cardinality(Observed)

\* track 2 has just had its first update after track 1 had two, with the
\* store also holding the never-observed, queried track 3
C13_Witness ==
    /\ ret.op = "update" /\ ret.track_id = 2
    /\ tracks[2].total_frames = 1
    /\ DOMAIN tracks = {1, 2, 3}
    /\ tracks[1].total_frames >= 2
    /\ tracks[3].first_seen = None
    /\ global_stats.total_tracks_seen = 2

-----------------------------------------------------------------------------
\* the ids the claim calls active at the clock reading current_time
ActiveAsClaimed(current_time) ==
    { track_id \in Observed :
        current_time - tracks[track_id].last_seen[1] < 2 * TicksPerSecond }

(* C14 (SpecApi), as claimed.  At any query time now, get_all_active_tracks*)
(* returns exactly the observed ids with now - last_seen < 2.0 s, a track  *)
(* last seen at timestamp 0 included, and get_global_stats().active_tracks *)
(* is the number of those ids.                                             *)
C14_ActiveIffRecent_AsClaimed ==
    /\ ret.op = "get_all_active_tracks" =>
          ret.value.result = ActiveAsClaimed(ret.value.current_time)
    /\ ret.op = "get_global_stats" =>
          ret.value.result.active_tracks
              = Cardinality(ActiveAsClaimed(ret.value.current_time))

-----------------------------------------------------------------------------
(* C15 (SpecApi).  For a track id that has never been observed get_summary *)
(* returns None, detect_activity_change returns None and export_track_data *)
(* returns the empty dict; none of them ends in an exception.              *)
C15_NeverObservedIsNoError ==
    ret.track_id \notin Observed =>
        /\ ret.op = "get_summary" => ret.value = None
        /\ ret.op = "detect_activity_change" => ret.value = None
        /\ ret.op = "export_track_data" => ret.value = EmptyDict

\* get_summary has answered None for track 3, which the store already held
\* from an earlier query, while tracks 1 and 2 are observed
C15_Witness ==
    /\ ret.op = "get_summary" /\ ret.track_id = 3 /\ ret.value = None
    /\ Observed = {1, 2}
    /\ 3 \in DOMAIN tracks

-----------------------------------------------------------------------------
QueryOps ==
    {"get_summary", "get_activity", "detect_activity_change",
     "export_track_data", "get_all_active_tracks", "get_global_stats"}

(* C16 (SpecApi), as claimed.  A query (get_summary, get_activity,         *)
(* detect_activity_change, export_track_data, get_all_active_tracks,       *)
(* get_global_stats), for an observed or a never-observed id, leaves the   *)
(* set of track ids the store holds, every Track State and the global      *)
(* counters as they were.                                                  *)
C16_QueriesReadOnly_AsClaimed ==
    [][ret'.op \in QueryOps =>
          /\ DOMAIN tracks' = DOMAIN tracks
          /\ tracks' = tracks
          /\ global_stats' = global_stats]_vars

-----------------------------------------------------------------------------
(* C19 (SpecApi), as claimed.  After removeTrack(track_id) the id is       *)
(* treated as never observed: the call succeeds, get_summary returns None  *)
(* for it and it is not listed as active at any time.                      *)
C19_RemoveTrackForgets_AsClaimed ==
    ret.op = "remove_track" =>
        /\ ret.value # "AttributeError"
        /\ GetSummaryResult(ret.track_id) = None
        /\ \A now \in QueryTimes :
              ret.track_id \notin GetAllActiveTracksResult(now)

-----------------------------------------------------------------------------
(* C18 (SpecCallback), as claimed.  With face recognition enabled the       *)
(* tracker accepts update_identity(track_id, name) in the frame callback:  *)
(* no error is raised and the activity-change check that follows it runs   *)
(* for that detection.                                                     *)
C18_ChangeCheckFollowsIdentity_AsClaimed ==
    (ret.op = "process_frame_callback" /\ user_data.face_recognition_enabled) =>
        /\ ret.value.error = None
        /\ ret.value.change_checked

-----------------------------------------------------------------------------
(* C20 (SpecCallback), as claimed.  The activity-change log of a track     *)
(* stays within a fixed bound however many transitions the track goes      *)
(* through; the bound taken is H = history_frames, the capacity of every   *)
(* other sequence of the Track State.                                      *)
C20_ChangeLogBounded_AsClaimed ==
    \A id \in DOMAIN tracks :
        Len(tracks[id].stats.activity_changes) <= history_frames

-----------------------------------------------------------------------------
\* a second Track Store, constructed with the same history_frames and
\* thresholds, after the updates `log` of one track and nothing else
RECURSIVE Replayed(_, _)
Replayed(s, log) ==
    IF log = <<>> THEN s
    ELSE Replayed(UpdatedFrom(s, Head(log)), Tail(log))

SecondStore(track_id) ==
    Replayed([track |-> CreateNewTrack, global |-> InitialGlobalStats],
             feed[track_id].log)

RECURSIVE SumOf(_)
SumOf(f) ==
    IF DOMAIN f = {} THEN 0
    ELSE LET i == CHOOSE j \in DOMAIN f : TRUE
         IN  f[i] + SumOf([j \in DOMAIN f \ {i} |-> f[j]])

(* C17 (SpecReplay).  The store is a function of the observations: each    *)
(* track's Track State (current_activity, previous_activity, fall flag,    *)
(* counters, history) is the one a second store with the same              *)
(* configuration reaches when fed that track's observations alone, the     *)
(* label an update returns is the label the second store returns for it,   *)
(* and each global counter is the sum of the second stores' counters; the  *)
(* other track's updates and the queries in between make no difference.    *)
C17_Deterministic ==
    \E second \in {[id \in Observed |-> SecondStore(id)]} :
        /\ \A id \in Observed : tracks[id] = second[id].track
        /\ ret.op = "update" =>
              ret.value = second[ret.track_id].track.current_activity
        /\ global_stats =
              [total_tracks_seen |->
                  SumOf([id \in Observed |-> second[id].global.total_tracks_seen]),
               active_tracks |->
                  SumOf([id \in Observed |-> second[id].global.active_tracks]),
               total_falls_detected |->
                  SumOf([id \in Observed |-> second[id].global.total_falls_detected]),
               total_activity_changes |->
                  SumOf([id \in Observed |->
                            second[id].global.total_activity_changes])]

\* both tracks have gone from stationary to moving, track 1 last, with
\* track 3 queried in between
C17_Witness ==
    /\ ret.op = "update" /\ ret.track_id = 1 /\ ret.value = "moving"
    /\ Observed = {1, 2}
    /\ DOMAIN tracks = {1, 2, 3}
    /\ tracks[1].previous_activity = "stationary"
    /\ tracks[2].current_activity = "moving"
    /\ global_stats.total_activity_changes = 2
-----------------------------------------------------------------------------
(* C21 (SpecCallback).  get_summary of an observed track reports           *)
(* duration = last_seen - first_seen, the track's total_frames and         *)
(* current_activity, as activity_history the last min(5, n) of the n       *)
(* recorded activity changes in the order they were recorded, which is the *)
(* order of their timestamps, and as total_activity_changes n; and every   *)
(* update that takes the track from one concrete label to another records  *)
(* one change, with the observation's timestamp and the two labels, while  *)
(* no other update records any.                                            *)
C21_SummaryReportsTrack ==
    /\ [](\A id \in DOMAIN tracks :
            (ret.op = "get_summary" /\ ret.track_id = id
             /\ tracks[id].first_seen # None) =>
                /\ ret.value # None
                /\ LET summary == ret.value[1]
                       changes == tracks[id].stats.activity_changes
                       n       == Min(5, Len(changes))
                   IN  /\ summary.duration_seconds
                             = tracks[id].last_seen[1] - tracks[id].first_seen[1]
                       /\ summary.total_frames = tracks[id].total_frames
                       /\ summary.current_activity = tracks[id].current_activity
                       /\ Len(summary.activity_history) = n
                       /\ \A i \in 1..n :
                             summary.activity_history[i]
                                 = changes[Len(changes) - n + i]
                       /\ \A i \in 1..(n - 1) :
                             summary.activity_history[i].timestamp
                                 < summary.activity_history[i + 1].timestamp
                       /\ summary.stats.total_activity_changes = Len(changes))
    /\ [][\A id \in CallbackIds : WasUpdated(id) =>
            LET old == TrackOf(id).stats.activity_changes
                new == tracks'[id].stats.activity_changes
                from == TrackOf(id).current_activity
                to   == tracks'[id].current_activity
            IN  IF from # "unknown" /\ to # from
                THEN new = Append(old, [timestamp |-> tracks'[id].last_seen[1],
                                        from |-> from, to |-> to])
                ELSE new = old]_vars

C21_Witness ==
    /\ ret.op = "get_summary"
    /\ ret.track_id \in DOMAIN tracks
    /\ ret.value # None
    /\ Len(tracks[ret.track_id].stats.activity_changes) = 7
    /\ Len(ret.value[1].activity_history) = 5

-----------------------------------------------------------------------------
(* C22 (SpecCallback).  For every observed track, the document             *)
(* save_to_json writes from export_track_data, parsed again, is a dict     *)
(* whose track_id, metadata.total_frames and current_state.activity are    *)
(* the int, the int and the string the live Track State holds at that      *)
(* time.                                                                   *)
C22_ExportRoundTrip ==
    \A id \in DOMAIN tracks :
        (ret.op = "save_to_json" /\ ret.track_id = id
         /\ ret.value.written # None /\ tracks[id].first_seen # None) =>
            \E parsed \in {JsonLoad(ret.value.written[1])} :
                /\ parsed.py = "dict"
                /\ parsed.items.track_id = PyInt(id)
                /\ parsed.items.metadata.items.total_frames
                      = PyInt(tracks[id].total_frames)
                /\ parsed.items.current_state.items.activity
                      = PyStr(tracks[id].current_activity)

C22_Witness ==
    /\ ret.op = "save_to_json"
    /\ ret.value.written # None
    /\ ret.track_id \in DOMAIN tracks
    /\ tracks[ret.track_id].total_frames > history_frames
    /\ tracks[ret.track_id].current_activity = "sitting"
    /\ JsonLoad(ret.value.written[1]) #
          ExportedValue(ExportTrackDataResult(ret.track_id))

-----------------------------------------------------------------------------
(* C23 (SpecCallback), as claimed.  A save_to_json that fails on an        *)
(* unwritable path raises the I/O error to its caller and leaves the Track *)
(* Store, its tracks and its global statistics, as it was before the call. *)
C23_FailedSaveLeavesStore_AsClaimed ==
    [][(ret'.op = "save_to_json" /\ ret'.value.error # None) =>
          /\ ret'.value.error = <<"OSError">>
          /\ ret'.value.written = None
          /\ tracks' = tracks
          /\ global_stats' = global_stats]_vars

-----------------------------------------------------------------------------
\* the time elapsed over the last at most `window` entries of the history
Elapsed(track, window) ==
    track.timestamps[Len(track.timestamps)]
        - LastN(track.timestamps, window)[1]

\* the summed bbox height of the last at most `window` entries
HeightSum(track, window) == SumInts(Heights(LastN(track.bboxes, window)))

(* C24 (SpecDegenerate).  Every update, whether the observation has no     *)
(* keypoints, a bbox of height 0 or below, or a timestamp that does not    *)
(* advance, appends the observation and returns the track's label.  When   *)
(* no time has elapsed over the last at most 10 entries, or their mean     *)
(* bbox height is 0 or below, the normalized speed is 0 and the frame is   *)
(* counted as stationary; pose height and hip ratio of an observation      *)
(* without keypoints or with a bbox of height 0 or below are None; a label *)
(* computed when no time has elapsed over the whole history is not         *)
(* 'moving'.  A track none of whose timestamps advanced has no moving      *)
(* frame and is not 'moving'.                                              *)
C24_DegenerateDataDegrades ==
    /\ [][WasUpdated(1) =>
            LET old == TrackOf(1)
                new == tracks'[1]
                fd  == FrameData(old, feed'[1].kind, 0)
                n   == Len(new.timestamps)
            IN  /\ ret'.op = "update"
                /\ ret'.value = new.current_activity
                /\ ret'.value \in Concrete \cup {"unknown"}
                /\ new.total_frames = old.total_frames + 1
                /\ n = Len(old.timestamps) + 1
                /\ new.timestamps[n] = fd.timestamp
                /\ new.bboxes[n] = fd.bbox
                /\ new.keypoints[n] = fd.keypoints
                /\ (n >= 2 /\ (Elapsed(new, 10) <= 0 \/ HeightSum(new, 10) <= 0)) =>
                      /\ CalculateNormalizedSpeed(new, 10) = Zero
                      /\ new.stats.frames_stationary
                            = old.stats.frames_stationary + 1
                      /\ new.stats.frames_moving = old.stats.frames_moving
                      /\ new.stats.total_distance_norm
                            = old.stats.total_distance_norm
                /\ (fd.keypoints = <<>> \/ GetBboxHeight(fd.bbox) <= 0) =>
                      /\ CalculatePoseHeightNormalized(fd.keypoints, fd.bbox) = None
                      /\ CalculateHipRatio(fd.keypoints, fd.bbox) = None
                /\ (n >= 10 /\ Elapsed(new, 30) <= 0) =>
                      ret'.value \in {"stationary", "sitting"}]_vars
    /\ [](\A id \in DOMAIN tracks :
            (\A i \in 2..Len(tracks[id].timestamps) :
                tracks[id].timestamps[i] <= tracks[id].timestamps[i - 1]) =>
                    /\ tracks[id].stats.frames_moving = 0
                    /\ tracks[id].current_activity # "moving")

\* ten observations 30 px apart, none later than the one before and not all
\* at the same time, have been classified
C24_Witness ==
    /\ 1 \in DOMAIN tracks
    /\ ret.op = "update"
    /\ Len(tracks[1].timestamps) = 11
    /\ \A i \in 2..11 : tracks[1].timestamps[i] <= tracks[1].timestamps[i - 1]
    /\ tracks[1].timestamps[11] < tracks[1].timestamps[1]
    /\ tracks[1].timestamps[2] = tracks[1].timestamps[1]
    /\ TotalDistance(tracks[1].positions) = 300
    /\ tracks[1].current_activity = "stationary"
    /\ tracks[1].stats.frames_stationary = 10

-----------------------------------------------------------------------------
\* the track with every position and every bbox coordinate multiplied by
\* `factor`, its timestamps kept
Scaled(track, factor) ==
    [track EXCEPT
        !.positions = [i \in 1..Len(@) |-> <<factor * @[i][1], factor * @[i][2]>>],
        !.bboxes    = [i \in 1..Len(@) |->
                          [k \in DOMAIN @[i] |-> factor * @[i][k]]]]

(* C25 (SpecDegenerate).  For every history and the factors 2 and 3, the   *)
(* normalized speed over the last 10 and over the last 30 entries of the   *)
(* track scaled by the factor equals that of the track itself, and so does *)
(* the comparison of the speed with speed_stationary that decides between  *)
(* stationary and moving.                                                  *)
C25_SpeedScaleInvariant ==
    \A id \in DOMAIN tracks : \A window \in {10, 30} :
        \E speed \in {CalculateNormalizedSpeed(tracks[id], window)} :
            \A factor \in 2..3 :
                \E scaled \in {CalculateNormalizedSpeed(
                                   Scaled(tracks[id], factor), window)} :
                    /\ scaled = speed
                    /\ FLess(scaled, thresholds.speed_stationary)
                          <=> FLess(speed, thresholds.speed_stationary)

\* the last 10 entries hold 7 bboxes of height 250 and 3 of height 0, and
\* the speed over them is above speed_stationary
C25_Witness ==
    /\ 1 \in DOMAIN tracks
    /\ Len(tracks[1].positions) >= 10
    /\ HeightSum(tracks[1], 10) = 7 * 250
    /\ Elapsed(tracks[1], 10) = 90
    /\ FLess(thresholds.speed_stationary,
             CalculateNormalizedSpeed(tracks[1], 10))
    /\ Scaled(tracks[1], 2).bboxes[1].ymin = 2 * tracks[1].bboxes[1].ymin

-----------------------------------------------------------------------------
(* C26 (SpecWalk).  An update that leaves the track with at least 2        *)
(* history entries adds 1 to frames_moving and the speed to the cumulative *)
(* distance, which thereby grows, when the normalized speed over the last  *)
(* at most 10 entries is not below speed_stationary, and otherwise adds 1  *)
(* to frames_stationary and leaves the distance alone; the first update    *)
(* changes neither counter.  A track whose N >= 10 observations all moved  *)
(* 5 px at 15 observations a second with a bbox 250 high is 'moving' with  *)
(* N - 1 moving frames, and its summary reports percent_moving =           *)
(* (N - 1) / N * 100, which is above 80 for N = 50.                        *)
C26_SpeedAccumulation ==
    /\ [][WasUpdated(1) =>
            LET old == TrackOf(1).stats
                new == tracks'[1].stats
                speed == CalculateNormalizedSpeed(tracks'[1], 10)
            IN  IF Len(tracks'[1].positions) < 2
                THEN /\ new.frames_moving = old.frames_moving
                     /\ new.frames_stationary = old.frames_stationary
                     /\ new.total_distance_norm = old.total_distance_norm
                ELSE IF FLess(speed, thresholds.speed_stationary)
                THEN /\ new.frames_stationary = old.frames_stationary + 1
                     /\ new.frames_moving = old.frames_moving
                     /\ new.total_distance_norm = old.total_distance_norm
                ELSE /\ new.frames_moving = old.frames_moving + 1
                     /\ new.frames_stationary = old.frames_stationary
                     /\ new.total_distance_norm
                           = Append(old.total_distance_norm, speed)
                     /\ FPositive(speed)]_vars
    /\ [](\A id \in DOMAIN feed :
            (feed[id].kind = Walk /\ feed[id].switches = 0
             /\ tracks[id].total_frames >= 10) =>
                LET N == tracks[id].total_frames
                IN  /\ tracks[id].current_activity = "moving"
                    /\ tracks[id].stats.frames_moving = N - 1
                    /\ (ret.op = "get_summary" /\ ret.track_id = id) =>
                          /\ ret.value[1].current_activity = "moving"
                          /\ ret.value[1].stats.percent_moving
                                = Frac((N - 1) * 100, N)
                          /\ N = 50 => FLess(<<80, 1>>,
                                            ret.value[1].stats.percent_moving))

C26_Witness ==
    /\ ret.op = "get_summary"
    /\ 1 \in DOMAIN feed
    /\ feed[1].kind = Walk
    /\ tracks[1].total_frames = 50
    /\ ret.value[1].stats.percent_moving = <<98, 1>>
    /\ Len(tracks[1].stats.total_distance_norm) = 49

-----------------------------------------------------------------------------
\* the step is an update_identity call for track 1 with a name
NamedResult ==
    /\ feed' # feed
    /\ ret'.op = "update_identity"
    /\ feed'[1].kind[1] # "Unknown"

\* the candidates of track 1 after the step's call: those it had and the new
\* one, without the ones older than `oldest`
Remaining(oldest) ==
    SelectSeq(Append(Get(face_identity_manager.identity_candidates, 1),
                     [name |-> feed'[1].kind[1], timestamp |-> clock]),
              LAMBDA c : clock - c.timestamp <= oldest)

\* the number of occurrences of the most frequent name
TopCount(candidates) ==
    CHOOSE n \in 0..Len(candidates) :
        /\ \A i \in 1..Len(candidates) :
              NameCount(candidates, candidates[i].name) <= n
        /\ n > 0 => \E i \in 1..Len(candidates) :
                       NameCount(candidates, candidates[i].name) = n

\* the identity of track 1 is as it was before any confirmation
Unconfirmed ==
    GetIdentityResult(1) = "Unknown" /\ ~IsIdentifiedResult(1)

\* update_identity with a name returns True, and then has the identity
\* confirmed, exactly when the most frequent name among the candidates not
\* older than `oldest` occurs min_confirmations times; a call that returns
\* False leaves the identities alone; until a call returns True the track
\* stays unconfirmed
ConfirmsAfterAgreement(oldest) ==
    /\ NamedResult =>
          /\ ret'.value <=>
                TopCount(Remaining(oldest))
                    >= face_identity_manager.min_confirmations
          /\ ret'.value => IsIdentifiedResult(1)'
          /\ ~ret'.value =>
                face_identity_manager'.track_identities
                    = face_identity_manager.track_identities
    /\ (Unconfirmed /\ ~(NamedResult /\ ret'.value)) => Unconfirmed'

(* C27 (SpecIdentity), as claimed.  update_identity with a name returns    *)
(* True and marks the identity confirmed exactly when, with the new        *)
(* candidate added and the candidates older than 5 seconds discarded, the  *)
(* most frequent name occurs at least min_confirmations times; before that *)
(* get_identity is 'Unknown' and is_identified False.                      *)
C27_ConfirmsAfterAgreement_AsClaimed ==
    [][ConfirmsAfterAgreement(5 * TicksPerSecond)]_vars

(* C27 (SpecIdentity), amended.  The same with the candidates that are 5   *)
(* seconds old or older discarded.                                         *)
C27_ConfirmsAfterAgreement ==
    [][ConfirmsAfterAgreement(5 * TicksPerSecond - 1)]_vars

\* the second Ahmed arrived exactly 5 s after the first and was not enough
C27_Witness ==
    /\ ret.op = "update_identity"
    /\ ret.value = FALSE
    /\ face_identity_manager.min_confirmations = 2
    /\ feed[1] = [kind |-> <<"Ahmed", 80, <<"g1">>>>, sent |-> 2, switches |-> 0]
    /\ clock = 5 * TicksPerSecond
    /\ Len(face_identity_manager.identity_candidates[1]) = 1
    /\ Unconfirmed

-----------------------------------------------------------------------------
\* the confirmed name of the track, its last confirmation more than
\* identity_timeout ago
TimedOut(track_id) ==
    /\ track_id \in DOMAIN face_identity_manager.track_identities
    /\ face_identity_manager.track_identities[track_id].name # "Unknown"
    /\ clock - face_identity_manager.track_identities[track_id].last_confirmed
          > face_identity_manager.identity_timeout

(* C28 (SpecIdentity), as claimed.  Once more than identity_timeout has    *)
(* passed since the last confirmation of a track, is_identified returns    *)
(* False for it while get_identity returns the confirmed name.             *)
C28_TimedOutNotIdentified_AsClaimed ==
    TimedOut(ret.track_id) =>
        /\ ret.op = "is_identified" => ret.value = FALSE
        /\ ret.op = "get_identity" =>
              ret.value = face_identity_manager.track_identities[ret.track_id].name

-----------------------------------------------------------------------------
(* C29 (SpecIdentity).  After an update_identity call that returns True,   *)
(* get_identity returns a name that no other name exceeds in number among  *)
(* the track's candidates less than 5 seconds old, the new one included;   *)
(* so it returns the other person's name once that name is more frequent   *)
(* than every other.                                                       *)
C29_DominantNameWins ==
    [][(NamedResult /\ ret'.value) =>
          \E recent \in {Remaining(5 * TicksPerSecond - 1)} :
              /\ NameCount(recent, GetIdentityResult(1)') = TopCount(recent)
              /\ TopCount(recent) >= face_identity_manager.min_confirmations
              /\ face_identity_manager'.track_identities[1].last_confirmed
                    = clock]_vars

\* Ahmed, confirmed by two results, has become Sara with her third
C29_Witness ==
    /\ ret.op = "update_identity"
    /\ ret.value = TRUE
    /\ GetIdentityResult(1) = "Sara"
    /\ 1 \in DOMAIN face_identity_manager.identity_candidates
    /\ Len(face_identity_manager.identity_candidates[1]) = 5
    /\ \A i \in 1..2 :
          face_identity_manager.identity_candidates[1][i].name = "Ahmed"
    /\ face_identity_manager.track_identities[1].confirmation_count = 5

-----------------------------------------------------------------------------
(* C30 (SpecIdentity).  update_identity with the name 'Unknown' returns    *)
(* False, adds no candidate, leaves the identity the track has as it is    *)
(* and so does not make is_identified true; for a track without an         *)
(* identity it records the unconfirmed entry 'Unknown' and nothing else.   *)
C30_UnknownConfirmsNothing ==
    [][(feed' # feed /\ ret'.op = "update_identity"
        /\ feed'[1].kind[1] = "Unknown") =>
          LET old == face_identity_manager.track_identities
              new == face_identity_manager'.track_identities
          IN  /\ ret'.value = FALSE
              /\ face_identity_manager'.identity_candidates
                    = face_identity_manager.identity_candidates
              /\ IsIdentifiedResult(1)' = IsIdentifiedResult(1)
              /\ IF 1 \in DOMAIN old THEN new = old
                 ELSE /\ DOMAIN new = DOMAIN old \cup {1}
                      /\ new[1].name = "Unknown"
                      /\ new[1].is_confirmed = FALSE
                      /\ new[1].confirmation_count = 0
                      /\ new[1].confidence = Zero
                      /\ GetIdentityResult(1)' = "Unknown"
                      /\ ~IsIdentifiedResult(1)']_vars

\* 'Unknown' was the answer for a track confirmed as Ahmed
C30_Witness ==
    /\ ret.op = "update_identity"
    /\ 1 \in DOMAIN feed
    /\ feed[1].kind[1] = "Unknown"
    /\ IsIdentifiedResult(1)
    /\ GetIdentityResult(1) = "Ahmed"
    /\ face_identity_manager.track_identities[1].confidence = <<80, 1>>

(* C31 (SpecConfig).  The thresholds are live configuration: an update of  *)
(* a track counts the frame as stationary or moving, labels the track and  *)
(* checks for a fall with the thresholds as they are when it runs, also    *)
(* when they were changed since the previous update, and a change of the   *)
(* thresholds rewrites no track and no global counter.                     *)
ClassifierLabel(track) ==
    LET samples == [i \in 1..Len(track.keypoints) |->
                       <<track.keypoints[i], track.bboxes[i]>>]
        HasJoints(sample) ==
            /\ {"left_hip", "right_hip", "left_ankle", "right_ankle"}
                   \subseteq DOMAIN sample[1]
            /\ GetBboxHeight(sample[2]) > 0
        with_joints == SelectSeq(LastN(samples, 5), HasJoints)
        mean_hip_ratio ==
            IF with_joints = <<>> THEN <<1, 2>>
            ELSE FMean([k \in 1..Len(with_joints) |->
                          CalculateHipRatio(with_joints[k][1],
                                            with_joints[k][2])])
        speed == CalculateNormalizedSpeed(track, 30)
    IN  IF /\ FLess(thresholds.hip_ratio_sitting, mean_hip_ratio)
           /\ FLess(speed, FScale(thresholds.speed_stationary, 3, 2))
        THEN "sitting"
        ELSE IF FLess(speed, thresholds.speed_stationary) THEN "stationary"
        ELSE "moving"

C31_ThresholdsAreLive ==
    [][IF WasUpdated(1)
       THEN LET old == TrackOf(1)
                new == tracks'[1]
                slow == FLess(CalculateNormalizedSpeed(new, 10),
                              thresholds.speed_stationary)
            IN  /\ Len(new.positions) >= 2 =>
                      /\ new.stats.frames_stationary =
                             old.stats.frames_stationary + (IF slow THEN 1 ELSE 0)
                      /\ new.stats.frames_moving =
                             old.stats.frames_moving + (IF slow THEN 0 ELSE 1)
                /\ Len(new.positions) >= 10 =>
                      /\ new.current_activity = ClassifierLabel(new)
                      /\ ret'.value = ClassifierLabel(new)
                /\ new.stats.fall_detected =
                      (old.stats.fall_detected \/ FallCondition(new))
       ELSE tracks' = tracks /\ global_stats' = global_stats]_vars

\* after speed_stationary was raised the walking person's label changed from
\* moving to stationary, with frames counted as moving and as stationary,
\* and after fall_time_threshold was raised the fall was flagged
C31_Witness ==
    /\ 1 \in DOMAIN tracks
    /\ feed[1].kind.dt = TicksPerSecond \div 15
    /\ thresholds.speed_stationary = <<1, 2>>
    /\ ret = [op |-> "update", track_id |-> 1, value |-> "stationary"]
    /\ tracks[1].previous_activity = "moving"
    /\ FLess(DefaultThresholds.speed_stationary,
             CalculateNormalizedSpeed(tracks[1], 30))
    /\ tracks[1].stats.frames_moving > 0
    /\ tracks[1].stats.frames_stationary > 0
    /\ tracks[1].stats.fall_detected

(* C32 (SpecFalls).  total_falls_detected equals the number of tracks      *)
(* whose fall_detected is true: it is incremented by the update that flags *)
(* a track and by no other, also while the fall condition goes on holding  *)
(* for the flagged track.                                                  *)
C32_FallsCountFlaggedTracks ==
    global_stats.total_falls_detected =
        Cardinality({id \in DOMAIN tracks : tracks[id].stats.fall_detected})

\* two persons are flagged, one of them in an earlier update with the fall
\* condition still holding at its last update, and a third is not flagged
C32_Witness ==
    /\ global_stats.total_falls_detected = 2
    /\ \E id \in DOMAIN tracks : ~tracks[id].stats.fall_detected
    /\ \E id \in DOMAIN tracks :
          /\ tracks[id].stats.fall_detected
          /\ tracks[id].stats.fall_timestamp[1] < tracks[id].last_seen[1]
          /\ FallCondition(tracks[id])
          /\ ret.op = "update" /\ ret.track_id = id

(* C33 (SpecExport), as claimed.  A dict returned by export_track_data is  *)
(* a snapshot: a later step that is not another export changes no part of  *)
(* what the caller reads in it (metadata, current_state, statistics,       *)
(* raw_data).                                                              *)
C33_ExportIsSnapshot_AsClaimed ==
    [][(exported # None /\ exported' = exported) =>
          ExportedNow' = ExportedNow]_vars

(* C34 (SpecApi).  The Track State of a person observed at least once is   *)
(* retained: no update, query or remove_track call deletes or resets it.   *)
(* first_seen stays the timestamp of the first update, last_seen is the    *)
(* timestamp of the latest update, total_frames never decreases and        *)
(* get_summary goes on returning a summary.                                *)
SentTimestamp(id) ==
    FrameData(TrackOf(id), feed'[id].kind, 5 * (id - 1)).timestamp

C34_TrackStateRetained ==
    [][\A id \in StoreIds :
          LET old == TrackOf(id)
          IN  /\ (old.first_seen = None /\ WasUpdated(id)) =>
                    /\ tracks'[id].first_seen = <<5 * (id - 1)>>
                    /\ tracks'[id].last_seen = <<5 * (id - 1)>>
              /\ old.first_seen # None =>
                    /\ id \in DOMAIN tracks'
                    /\ tracks'[id].first_seen = old.first_seen
                    /\ tracks'[id].total_frames >= old.total_frames
                    /\ tracks'[id].last_seen =
                           IF WasUpdated(id) THEN <<SentTimestamp(id)>>
                           ELSE old.last_seen
                    /\ GetSummaryResult(id)' # None]_vars

\* person 1, first seen at time 0 and seen 3 times, the last time 2 s after
\* the time before, is asked for and has a summary
C34_Witness ==
    /\ 1 \in DOMAIN tracks
    /\ tracks[1].first_seen = <<0>>
    /\ tracks[1].total_frames = 3
    /\ tracks[1].last_seen[1] >= 2 * TicksPerSecond
    /\ ret.op = "get_summary" /\ ret.track_id = 1 /\ ret.value # None

(* C35 (SpecShort).  The counters of an observed track, for a history      *)
(* capacity of 2 or more.                                                  *)
Hundred == <<100, 1>>

\* every percentage of the summary lies in [0, 100] and percent_moving +
\* percent_stationary is below 100
PercentagesInRange(track_id) ==
    LET stats == GetSummaryResult(track_id)[1].stats
        InRange(p) == ~FLess(p, Zero) /\ ~FLess(Hundred, p)
    IN  /\ InRange(stats.percent_moving)
        /\ InRange(stats.percent_stationary)
        /\ InRange(stats.percent_sitting)
        /\ FLess(FAdd(stats.percent_moving, stats.percent_stationary), Hundred)

(* C35, as claimed.  frames_stationary + frames_moving = total_frames - 1  *)
(* and frames_sitting <= total_frames - 9, and the percentages are in      *)
(* range.                                                                  *)
C35_CounterInvariant_AsClaimed ==
    \A id \in DOMAIN tracks :
        LET track == tracks[id]
        IN  (history_frames >= 2 /\ track.total_frames >= 1) =>
               /\ track.stats.frames_stationary + track.stats.frames_moving
                      = track.total_frames - 1
               /\ track.stats.frames_sitting <= track.total_frames - 9
               /\ PercentagesInRange(id)

(* C35 as amended.  frames_stationary + frames_moving = total_frames - 1,  *)
(* and frames_sitting is 0 through the first 9 observations and at most    *)
(* total_frames - 9 after them; every percentage of get_summary lies in    *)
(* [0, 100] and percent_moving + percent_stationary < 100.                 *)
C35_CounterInvariant ==
    \A id \in DOMAIN tracks :
        LET track == tracks[id]
        IN  (history_frames >= 2 /\ track.total_frames >= 1) =>
               /\ track.stats.frames_stationary + track.stats.frames_moving
                      = track.total_frames - 1
               /\ track.stats.frames_sitting
                      <= (IF track.total_frames > 9
                          THEN track.total_frames - 9 ELSE 0)
               /\ PercentagesInRange(id)

\* a summary whose three percentages together exceed 100
C35_Witness ==
    /\ ret.op = "get_summary" /\ ret.value # None
    /\ LET stats == ret.value[1].stats
       IN  FLess(Hundred, FAdd(stats.percent_moving,
                               FAdd(stats.percent_stationary,
                                    stats.percent_sitting)))

(* C36 (Spec), as claimed.  The per-frame counters agree with the label:   *)
(* an update that returns 'moving' has incremented frames_moving, and an   *)
(* update that returns 'stationary' has incremented frames_stationary.     *)
C36_CountersAgreeWithLabel_AsClaimed ==
    [][\A id \in DOMAIN tracks' :
          (WasUpdated(id) /\ ret'.op = "update") =>
              LET old == TrackOf(id).stats
                  new == tracks'[id].stats
              IN  /\ ret'.value = "moving" =>
                        new.frames_moving = old.frames_moving + 1
                  /\ ret'.value = "stationary" =>
                        new.frames_stationary = old.frames_stationary + 1]_vars

(* C37 (SpecConfig).  An update flags a fall only when the last 15 entries *)
(* of the track span less than fall_time_threshold; for observations at a  *)
(* uniform spacing d only when 14 x d < fall_time_threshold, so that at 15 *)
(* observations a second and the default threshold of 0.5 s no drop of the *)
(* pose height is flagged.                                                 *)
C37_FallNeedsFastObservations ==
    [][\A id \in DOMAIN tracks' :
          (tracks'[id].stats.fall_detected /\ ~TrackOf(id).stats.fall_detected)
          => LET timestamps == tracks'[id].timestamps
                 n == Len(timestamps)
                 d == feed'[id].kind.dt
             IN  /\ n >= 15
                 /\ FLess(Frac(timestamps[n] - timestamps[n - 14],
                               TicksPerSecond),
                          thresholds.fall_time_threshold)
                 /\ FLess(Frac(14 * d, TicksPerSecond),
                          thresholds.fall_time_threshold)
                 /\ ~ (/\ d = TicksPerSecond \div 15
                       /\ thresholds.fall_time_threshold = <<1, 2>>)]_vars

\* a person observed 15 times a second under the thresholds of the
\* construction, standing in the first 3 of the last 15 entries and with the
\* nose at the ankles in the last 3, is not flagged
C37_Witness ==
    /\ 1 \in DOMAIN tracks
    /\ 0 \notin DOMAIN feed
    /\ thresholds = DefaultThresholds
    /\ feed[1].kind.dt = TicksPerSecond \div 15
    /\ LET track == tracks[1]
           n == Len(track.keypoints)
       IN  /\ n >= 15
           /\ \A i \in (n - 14)..(n - 12) :
                 StandingPose(track.keypoints[i], track.bboxes[i])
           /\ \A i \in (n - 2)..n : NoseAtAnkles(track.keypoints[i])
           /\ ~track.stats.fall_detected
           /\ ret = [op |-> "update", track_id |-> 1,
                     value |-> track.current_activity]

(* C38 (SpecCapacity).  With a history capacity H = history_frames of 10   *)
(* or more every update of a track from its 10th on returns a concrete     *)
(* label; with H < 10 current_activity stays 'unknown', and with H < 15    *)
(* fall_detected never becomes true, whatever is observed.                 *)
C38_CapacityDecidesClassification ==
    [][\A id \in DOMAIN tracks' :
          /\ (/\ WasUpdated(id)
              /\ history_frames >= 10
              /\ tracks'[id].total_frames >= 10) =>
                 /\ ret'.value \in Concrete
                 /\ tracks'[id].current_activity = ret'.value
          /\ history_frames < 10 =>
                 /\ tracks'[id].current_activity = "unknown"
                 /\ WasUpdated(id) => ret'.value = "unknown"
          /\ history_frames < 15 => ~tracks'[id].stats.fall_detected]_vars

\* with H = 14 a person seen 19 times 0.02 s apart, standing at first and
\* with the nose at the ankles in the last 3 observations, has a concrete
\* label and is not flagged
C38_Witness ==
    /\ history_frames = 14
    /\ 1 \in DOMAIN tracks
    /\ LET track == tracks[1]
           n == Len(track.keypoints)
       IN  /\ track.total_frames = 19
           /\ n = 14
           /\ StandingPose(track.keypoints[1], track.bboxes[1])
           /\ \A i \in (n - 2)..n : NoseAtAnkles(track.keypoints[i])
           /\ track.last_seen[1] - track.first_seen[1] < TicksPerSecond \div 2
           /\ ~track.stats.fall_detected
           /\ ret.op = "update" /\ ret.track_id = 1 /\ ret.value \in Concrete

(* C39 (SpecChoke), as claimed.  process_image for frame N returns only    *)
(* detections the callback produced for frame N: a callback that runs for  *)
(* frame N after the wait for it has timed out adds nothing to what        *)
(* process_image returns for frame N + 1.                                  *)
C39_DetectionsOfOwnFrame_AsClaimed ==
    ret.op = "process_image" =>
        \A k \in 1..Len(ret.value) : ret.value[k].frame = ret.frame_number

=============================================================================
